---------------------------- MODULE Spec2Model ----------------------------
(***************************************************************************)
(* A model of omen-fan-control: the curve engine                           *)
(* (FanController.calculate_target_pwm), the control daemon loop (serve,   *)
(* in omen_cli.py and in omen_fan_control/cli.py), the configuration store *)
(* (load_config / save_config), the calibration routine                   *)
(* (FanController.calibrate, driven by the CLI calibrate command or by the *)
(* GUI) and the controller's check_board_support, set_fan_mode and         *)
(* set_fan_pwm.                                                            *)
(*                                                                         *)
(* Numbers: temperatures are whole degrees Celsius, an averaged            *)
(* temperature is the exact fraction <<sum, count>>, a duty is a percent,  *)
(* a PWM value is 0..255, time is whole seconds.                           *)
(***************************************************************************)
EXTENDS Integers, Sequences, FiniteSets, TLC

VARIABLES
    file,                   \* the stored configuration document (config.json)
    file_mtime,             \* its modification time, in timestamp granules
    file_state,             \* "whole", "partial" (opened for writing, not yet
                            \* written out; no JSON document) or "absent"
    config,                 \* serve: controller.config, the daemon's in-memory copy
    last_config_mtime,      \* serve: last_config_mtime
    ma_window,              \* serve: the local ma_window
    temp_history,           \* serve: temp_history
    hysteresis_start_time,  \* serve: hysteresis_start_time, None or <<t>>
    pc,                     \* serve: "top" (before the reload check) or "body"
    impl,                   \* which serve runs: "omen_cli" or "omen_fan_control"
    pwm1_enable,            \* actuator: pwm1_enable (0 max, 1 manual, 2 auto)
    pwm1,                   \* actuator: pwm1 (0..255)
    now,                    \* time.time()
    horizon,                \* the time up to which the run is followed
    tick,                   \* what the daemon's last step read, decided and wrote
    recent,                 \* the last MaxWindow samples serve has pushed, newest last
    cal,                    \* the calibrating process (CLI calibrate + calibrate())
    n_saves,                \* how many times other processes have saved the document
    query,                  \* curve engine harness: the temperature asked for
    result                  \* curve engine harness: calculate_target_pwm(query)

vars == <<file, file_mtime, file_state, config, last_config_mtime, ma_window,
          temp_history, hysteresis_start_time, pc, impl, pwm1_enable, pwm1, now, horizon,
          tick, recent, cal, n_saves, query, result>>

---------------------------------------------------------------------------
(* Bounds of the model                                                     *)

MaxCurveLen == 3
MaxWindow == 2
MaxTime == 70
MaxSaves == 1
MaxReloadTime == 10
MaxStoreSaves == 2
MaxStoreTime == 7
MaxFaultTime == 9
MaxBoardSaves == 2
MaxChatterTime == 129
MaxGuiTime == 5
MaxGuiSaves == 1
MaxReadOnlyTime == 6
MaxRangeTime == 5

(* Program constants                                                       *)

DEFAULT_MA_WINDOW == 5
DEFAULT_CALIBRATION_WAIT == 30
HYSTERESIS_RPM == 200
HYSTERESIS_SECONDS == 60
TICK_SLEEP == 2
CALIBRATION_SLEEP == 1
ERROR_SLEEP == 5
CURVE_TIMER_SECONDS == 2
CALIBRATION_STEPS == 10
PWM_FULL == 255
PERCENT_FULL == 100

None == <<>>

Some(x) == <<x>>

Modes == {"auto", "max", "manual", "curve", "calibration"}

---------------------------------------------------------------------------
(* Exact arithmetic on fractions <<numerator, denominator>>, denominator   *)
(* positive.                                                               *)

Abs(x) == IF x < 0 THEN -x ELSE x

\* float <= int, int <= float
FracLeInt(q, n) == q[1] <= n * q[2]

IntLeFrac(n, q) == n * q[2] <= q[1]

\* int() without round(): the fraction is cut off.
RoundTruncates(num, den) == num \div den

\* Python 3 round(): to the nearest integer, a tie to the even one.
Round(num, den) ==
    LET fl == num \div den
        r2 == 2 * (num % den)
    IN  IF r2 < den THEN fl
        ELSE IF r2 > den THEN fl + 1
        ELSE IF fl % 2 = 0 THEN fl ELSE fl + 1

RECURSIVE SumSeq(_)
SumSeq(s) == IF s = <<>> THEN 0 ELSE s[1] + SumSeq(Tail(s))

---------------------------------------------------------------------------
(* The curve engine                                                        *)

\* sorted(curve, key=lambda p: p[0]): a stable sort by temperature. The place of
\* point i is one more than the number of points that are colder, or as warm and
\* earlier in the list.
PlaceInSorted(curve, i) ==
    1 + Cardinality({j \in 1..Len(curve) :
                        \/ curve[j][1] < curve[i][1]
                        \/ curve[j][1] = curve[i][1] /\ j < i})

SortedCurve(curve) ==
    [k \in 1..Len(curve) |->
        curve[CHOOSE i \in 1..Len(curve) : PlaceInSorted(curve, i) = k]]

Min(S) == CHOOSE x \in S : \A y \in S : x <= y

\* The step taken from the upper point of the segment.
InterpolateUpperStep(p1, p2, t, interp_mode) ==
    IF interp_mode = "discrete" THEN <<p2[2], 1>>
    ELSE LET denom == p2[1] - p1[1]
         IN  IF denom = 0 THEN <<p2[2], 1>>
             ELSE <<p1[2] * t[2] * denom + (t[1] - p1[1] * t[2]) * (p2[2] - p1[2]),
                    t[2] * denom>>

\* The interpolation with the lower duty left out of the sum.
InterpolateFromZero(p1, p2, t, interp_mode) ==
    IF interp_mode = "discrete" THEN <<p1[2], 1>>
    ELSE LET denom == p2[1] - p1[1]
         IN  IF denom = 0 THEN <<p2[2], 1>>
             ELSE <<(t[1] - p1[1] * t[2]) * (p2[2] - p1[2]), t[2] * denom>>

\* Lines 316-324: the duty percent on the segment p1..p2, as a fraction.
Interpolate(p1, p2, t, interp_mode) ==
    IF interp_mode = "discrete" THEN <<p1[2], 1>>
    ELSE LET denom == p2[1] - p1[1]
         IN  IF denom = 0 THEN <<p2[2], 1>>
             ELSE <<p1[2] * t[2] * denom + (t[1] - p1[1] * t[2]) * (p2[2] - p1[2]),
                    t[2] * denom>>

\* Lines 310-325: the scan for the first segment with p1.temp <= t <= p2.temp.
ScanSegments(c, t, interp_mode) ==
    LET hits == {i \in 1..(Len(c) - 1) :
                    IntLeFrac(c[i][1], t) /\ FracLeInt(t, c[i + 1][1])}
    IN  IF hits = {} THEN <<0, 1>>
        ELSE Interpolate(c[Min(hits)], c[Min(hits) + 1], t, interp_mode)

\* The clamps with the two ends taken for each other.
TargetPercentClampsSwapped(c, t, interp_mode) ==
    IF FracLeInt(t, c[1][1]) THEN <<c[Len(c)][2], 1>>
    ELSE IF IntLeFrac(c[Len(c)][1], t) THEN <<c[1][2], 1>>
    ELSE ScanSegments(c, t, interp_mode)

\* The clamps without the upper one.
TargetPercentNoHighClamp(c, t, interp_mode) ==
    IF FracLeInt(t, c[1][1]) THEN <<c[1][2], 1>>
    ELSE ScanSegments(c, t, interp_mode)

\* Lines 303-325: target_speed_percent of a non-empty sorted curve.
TargetPercent(c, t, interp_mode) ==
    IF FracLeInt(t, c[1][1]) THEN <<c[1][2], 1>>
    ELSE IF IntLeFrac(c[Len(c)][1], t) THEN <<c[Len(c)][2], 1>>
    ELSE ScanSegments(c, t, interp_mode)

\* The percentage scaled by 255 alone.
PercentToPwmUnscaled(percent) ==
    CHOOSE pwm \in {Round(p[1] * PWM_FULL, p[2]) : p \in {percent}} : TRUE

\* Line 327: int(round(target_speed_percent / 100 * 255)).
PercentToPwm(percent) ==
    CHOOSE pwm \in {Round(p[1] * PWM_FULL, p[2] * PERCENT_FULL) : p \in {percent}} : TRUE

\* An empty curve answered with a duty of 0 instead of no answer.
calculate_target_pwm_zero_when_empty(cfg, current_temp) ==
    IF cfg.curve = <<>> THEN Some(0)
    ELSE CHOOSE target \in
            {Some(PercentToPwm(TargetPercent(curve, current_temp,
                                             cfg.curve_interpolation))) :
                curve \in {SortedCurve(cfg.curve)}} : TRUE

\* FanController.calculate_target_pwm: None for an empty curve.
calculate_target_pwm(cfg, current_temp) ==
    IF cfg.curve = <<>> THEN None
    ELSE CHOOSE target \in
            {Some(PercentToPwm(TargetPercent(curve, current_temp,
                                             cfg.curve_interpolation))) :
                curve \in {SortedCurve(cfg.curve)}} : TRUE

---------------------------------------------------------------------------
(* The configuration store                                                 *)

\* load_config's defaults, the fields the control core reads.
Defaults ==
    [fan_max |-> 0, calibration_wait |-> DEFAULT_CALIBRATION_WAIT,
     ma_window |-> DEFAULT_MA_WINDOW, curve |-> <<>>, mode |-> "auto",
     manual_pwm |-> 0, curve_interpolation |-> "smooth", cached_board_name |-> None]

\* load_config: defaults.copy() updated with the stored document.
load_config(doc) ==
    [k \in DOMAIN Defaults |-> IF k \in DOMAIN doc THEN doc[k] ELSE Defaults[k]]

load_config_reads_partial(state, doc) == load_config(doc)

\* load_config over the store as it is found: the defaults when config.json does
\* not exist, and when json.load fails on it (it holds no whole document).
load_config_from(state, doc) ==
    IF state = "whole" THEN load_config(doc) ELSE Defaults

---------------------------------------------------------------------------
(* The actuator: each operator gives the actuator's new state and the      *)
(* write_sys_file calls made, in order.                                    *)

\* set_fan_mode: 'max' writes 0 and 'auto' writes 2 to pwm1_enable.
set_fan_mode(mode, enable, pwm) ==
    IF mode = "max" THEN [enable |-> 0, pwm |-> pwm, writes |-> <<<<"pwm1_enable", 0>>>>]
    ELSE IF mode = "auto" THEN [enable |-> 2, pwm |-> pwm, writes |-> <<<<"pwm1_enable", 2>>>>]
    ELSE [enable |-> enable, pwm |-> pwm, writes |-> <<>>]

\* set_fan_pwm: puts pwm1_enable to 1 unless it reads "1", then writes pwm1.
set_fan_pwm(value, enable, pwm) ==
    [enable |-> 1, pwm |-> value,
     writes |-> (IF enable # 1 THEN <<<<"pwm1_enable", 1>>>> ELSE <<>>)
                \o <<<<"pwm1", value>>>>]

NoWrite(enable, pwm) == [enable |-> enable, pwm |-> pwm, writes |-> <<>>]

---------------------------------------------------------------------------
(* The daemon loop                                                         *)

\* The last MaxWindow samples pushed, whatever window the daemon uses.
RememberSample(seq, sample) ==
    LET all == seq \o <<sample>>
    IN  IF Len(all) > MaxWindow THEN SubSeq(all, Len(all) - MaxWindow + 1, Len(all))
        ELSE all

PushSampleNoEvict(history, window, sample) == Append(history, sample)

\* temp_history.append(current_temp); if len(temp_history) > ma_window: pop(0)
PushSample(history, window, sample) ==
    LET h == Append(history, sample)
    IN  IF Len(h) > window THEN Tail(h) ELSE h

\* avg_temp = sum(temp_history) / len(temp_history), as a fraction
Average(history) == <<SumSeq(history), Len(history)>>

\* diff = abs((target_pwm / 255) * max_rpm - current_rpm); diff <= 200
DiffWithinBand(target_pwm, max_rpm, current_rpm) ==
    Abs(target_pwm * max_rpm - current_rpm * PWM_FULL) <= HYSTERESIS_RPM * PWM_FULL

\* Variants of the hysteresis decision, each with one slip.
GovernorAtSixty(target_pwm, current_rpm, max_rpm, hold, t) ==
    IF max_rpm > 0
    THEN IF DiffWithinBand(target_pwm, max_rpm, current_rpm)
         THEN LET h == IF hold = None THEN Some(t) ELSE hold
              IN  [should_apply |-> t - h[1] >= HYSTERESIS_SECONDS, hold |-> h]
         ELSE [should_apply |-> TRUE, hold |-> None]
    ELSE [should_apply |-> TRUE, hold |-> hold]

GovernorHoldWins(target_pwm, current_rpm, max_rpm, hold, t) ==
    IF max_rpm > 0
    THEN IF DiffWithinBand(target_pwm, max_rpm, current_rpm) \/ hold # None
         THEN LET h == IF hold = None THEN Some(t) ELSE hold
              IN  [should_apply |-> t - h[1] > HYSTERESIS_SECONDS, hold |-> h]
         ELSE [should_apply |-> TRUE, hold |-> None]
    ELSE [should_apply |-> TRUE, hold |-> hold]

GovernorZeroCalibrated(target_pwm, current_rpm, max_rpm, hold, t) ==
    IF max_rpm >= 0
    THEN IF DiffWithinBand(target_pwm, max_rpm, current_rpm)
         THEN LET h == IF hold = None THEN Some(t) ELSE hold
              IN  [should_apply |-> t - h[1] > HYSTERESIS_SECONDS, hold |-> h]
         ELSE [should_apply |-> TRUE, hold |-> None]
    ELSE [should_apply |-> TRUE, hold |-> hold]

GovernorRestartsHold(target_pwm, current_rpm, max_rpm, hold, t) ==
    IF max_rpm > 0
    THEN IF DiffWithinBand(target_pwm, max_rpm, current_rpm)
         THEN [should_apply |-> t - t > HYSTERESIS_SECONDS, hold |-> Some(t)]
         ELSE [should_apply |-> TRUE, hold |-> None]
    ELSE [should_apply |-> TRUE, hold |-> hold]

GovernorDropsExpiredHold(target_pwm, current_rpm, max_rpm, hold, t) ==
    IF max_rpm > 0
    THEN IF DiffWithinBand(target_pwm, max_rpm, current_rpm)
         THEN LET h == IF hold = None THEN Some(t) ELSE hold
              IN  IF t - h[1] > HYSTERESIS_SECONDS
                  THEN [should_apply |-> FALSE, hold |-> Some(t)]
                  ELSE [should_apply |-> FALSE, hold |-> h]
         ELSE [should_apply |-> TRUE, hold |-> None]
    ELSE [should_apply |-> TRUE, hold |-> hold]

\* The hysteresis decision of serve: should_apply, and hysteresis_start_time as it
\* is left before the write (which then resets it).
Governor(target_pwm, current_rpm, max_rpm, hold, t) ==
    IF max_rpm > 0
    THEN IF DiffWithinBand(target_pwm, max_rpm, current_rpm)
         THEN LET h == IF hold = None THEN Some(t) ELSE hold
              IN  [should_apply |-> t - h[1] > HYSTERESIS_SECONDS, hold |-> h]
         ELSE [should_apply |-> TRUE, hold |-> None]
    ELSE [should_apply |-> TRUE, hold |-> hold]

CurveStepKeepsHold(cfg, target_pwm, current_rpm, hold, t, enable, pwm) ==
    IF target_pwm = None
    THEN [act |-> NoWrite(enable, pwm), hold |-> hold, target |-> None,
          should_apply |-> FALSE]
    ELSE IF Governor(target_pwm[1], current_rpm, cfg.fan_max, hold, t).should_apply
         THEN [act |-> set_fan_pwm(target_pwm[1], enable, pwm),
               hold |-> Governor(target_pwm[1], current_rpm, cfg.fan_max, hold, t).hold,
               target |-> target_pwm, should_apply |-> TRUE]
         ELSE [act |-> NoWrite(enable, pwm),
               hold |-> Governor(target_pwm[1], current_rpm, cfg.fan_max, hold, t).hold,
               target |-> target_pwm, should_apply |-> FALSE]

\* The curve branch of a tick, from target_pwm on: the actuator, the writes and
\* the hold afterwards.
CurveStep(cfg, target_pwm, current_rpm, hold, t, enable, pwm) ==
    IF target_pwm = None
    THEN [act |-> NoWrite(enable, pwm), hold |-> hold, target |-> None,
          should_apply |-> FALSE]
    ELSE IF Governor(target_pwm[1], current_rpm, cfg.fan_max, hold, t).should_apply
         THEN [act |-> set_fan_pwm(target_pwm[1], enable, pwm), hold |-> None,
               target |-> target_pwm, should_apply |-> TRUE]
         ELSE [act |-> NoWrite(enable, pwm),
               hold |-> Governor(target_pwm[1], current_rpm, cfg.fan_max, hold, t).hold,
               target |-> target_pwm, should_apply |-> FALSE]

DispatchUnknownAsAuto(cfg, target_pwm, current_rpm, hold, t, enable, pwm) ==
    IF cfg.mode = "curve"
    THEN CurveStep(cfg, target_pwm, current_rpm, hold, t, enable, pwm)
    ELSE [act |-> (IF cfg.mode = "manual"
                   THEN IF cfg.manual_pwm >= 0
                        THEN set_fan_pwm(cfg.manual_pwm, enable, pwm)
                        ELSE NoWrite(enable, pwm)
                   ELSE IF cfg.mode = "max"
                        THEN set_fan_mode("max", enable, pwm)
                        ELSE set_fan_mode("auto", enable, pwm)),
          hold |-> hold, target |-> None, should_apply |-> FALSE]

DispatchManualGoverned(cfg, target_pwm, current_rpm, hold, t, enable, pwm) ==
    IF cfg.mode = "curve"
    THEN CurveStep(cfg, target_pwm, current_rpm, hold, t, enable, pwm)
    ELSE [act |-> (IF cfg.mode = "manual"
                   THEN IF cfg.manual_pwm >= 0 /\ hold = None
                        THEN set_fan_pwm(cfg.manual_pwm, enable, pwm)
                        ELSE NoWrite(enable, pwm)
                   ELSE IF cfg.mode \in {"max", "auto"}
                        THEN set_fan_mode(cfg.mode, enable, pwm)
                        ELSE NoWrite(enable, pwm)),
          hold |-> hold, target |-> None, should_apply |-> FALSE]

\* The dispatch on mode of a tick; target_pwm is calculate_target_pwm(avg_temp),
\* which only the curve branch computes.
Dispatch(cfg, target_pwm, current_rpm, hold, t, enable, pwm) ==
    IF cfg.mode = "curve"
    THEN CurveStep(cfg, target_pwm, current_rpm, hold, t, enable, pwm)
    ELSE [act |-> (IF cfg.mode = "manual"
                   THEN IF cfg.manual_pwm >= 0
                        THEN set_fan_pwm(cfg.manual_pwm, enable, pwm)
                        ELSE NoWrite(enable, pwm)
                   ELSE IF cfg.mode \in {"max", "auto"}
                        THEN set_fan_mode(cfg.mode, enable, pwm)
                        ELSE NoWrite(enable, pwm)),
          hold |-> hold, target |-> None, should_apply |-> FALSE]

\* ma_window as the tick uses it: omen_cli.serve re-reads it from the config,
\* omen_fan_control.cli.serve keeps the value read before the loop.
WindowOfTick(which, cfg, local) == IF which = "omen_cli" THEN cfg.ma_window ELSE local

NoTick ==
    [step |-> "none", mode |-> "auto", stored_mode |-> "auto", time |-> 0,
     sample |-> 0, window |-> 0, cfg_window |-> 0,
     avg |-> <<0, 1>>, target |-> None, current_rpm |-> 0, max_rpm |-> 0,
     hold_before |-> None, hold_target |-> None, band_write |-> None,
     should_apply |-> FALSE, writes |-> <<>>]

\* The target of the tick that started the hold now in progress, None when no
\* hold is in progress: the target of the last tick if that tick started the
\* hold, else what the last step knew.
HeldTarget ==
    IF hysteresis_start_time = None THEN None
    ELSE IF tick.step = "body" /\ tick.hold_before = None THEN tick.target
    ELSE tick.hold_target

\* The time of the last write made in a curve tick of a calibrated fan with
\* diff <= 200, None if there was none: the time of the last tick if it was such
\* a tick and wrote, else what the last step knew.
LastBandWrite ==
    IF /\ tick.step = "body"
       /\ tick.mode = "curve"
       /\ tick.target # None
       /\ tick.max_rpm > 0
       /\ DiffWithinBand(tick.target[1], tick.max_rpm, tick.current_rpm)
       /\ tick.writes # <<>>
    THEN Some(tick.time)
    ELSE tick.band_write

TempReadings == {45, 75}

RpmReadings == {0, 2350}


AfterReloadAlwaysBody(mode) == "body"

\* Lines 301-305: with mode "calibration" the loop sleeps and continues from its
\* top, with any other mode it goes on into the tick.
AfterReload(mode) == IF mode = "calibration" THEN "top" ELSE "body"

\* Lines 292-305: the reload check and the calibration idle. stat() of a store
\* that is absent raises, and the exception is passed over.
ServeReload ==
    /\ pc = "top"
    /\ LET reload == file_state # "absent" /\ file_mtime > last_config_mtime
           cfg == IF reload THEN load_config_from(file_state, file) ELSE config
       IN  /\ config' = cfg
           /\ last_config_mtime' = IF reload THEN file_mtime ELSE last_config_mtime
           /\ IF AfterReload(cfg.mode) = "top"
              THEN /\ now + CALIBRATION_SLEEP <= horizon
                   /\ now' = now + CALIBRATION_SLEEP
                   /\ pc' = "top"
                   /\ tick' = [NoTick EXCEPT !.step = "idle", !.mode = cfg.mode,
                                             !.stored_mode = file.mode, !.time = now,
                                             !.hold_target = HeldTarget,
                                             !.band_write = LastBandWrite]
              ELSE /\ pc' = "body"
                   /\ UNCHANGED <<now, tick>>
    /\ UNCHANGED <<file, file_mtime, file_state, ma_window, temp_history,
                   hysteresis_start_time, impl, pwm1_enable, pwm1, horizon, recent, cal,
                   n_saves, query, result>>

\* Lines 307-357: sample, smooth, dispatch on the mode, sleep.
ServeTick(sample, current_rpm) ==
    /\ pc = "body"
    /\ \E window \in {WindowOfTick(impl, config, ma_window)} :
       \E history \in {PushSample(temp_history, window, sample)} :
       \E avg_temp \in {Average(history)} :
       \E target_pwm \in {IF config.mode = "curve"
                           THEN calculate_target_pwm(config, avg_temp)
                           ELSE None} :
       \E r \in {Dispatch(config, target_pwm, current_rpm, hysteresis_start_time,
                          now, pwm1_enable, pwm1)} :
          /\ now + TICK_SLEEP <= horizon
          /\ ma_window' = window
          /\ temp_history' = history
          /\ hysteresis_start_time' = r.hold
          /\ pwm1_enable' = r.act.enable
          /\ pwm1' = r.act.pwm
          /\ recent' = RememberSample(recent, sample)
          /\ tick' = [step |-> "body", mode |-> config.mode,
                      stored_mode |-> file.mode, time |-> now, sample |-> sample,
                      window |-> window, cfg_window |-> config.ma_window,
                      avg |-> avg_temp,
                      target |-> r.target, current_rpm |-> current_rpm,
                      max_rpm |-> config.fan_max,
                      hold_before |-> hysteresis_start_time,
                      hold_target |-> HeldTarget, band_write |-> LastBandWrite,
                      should_apply |-> r.should_apply, writes |-> r.act.writes]
          /\ now' = now + TICK_SLEEP
          /\ pc' = "top"
    /\ UNCHANGED <<file, file_mtime, file_state, config, last_config_mtime, impl,
                   horizon, cal, n_saves, query, result>>

\* A tick in which both sensors are read.
ServeBody ==
    \E sample \in TempReadings, current_rpm \in RpmReadings :
       ServeTick(sample, current_rpm)

\* get_cpu_temp over what read_sys_file gave: None when the sensor has no path,
\* does not exist or cannot be read, else the millidegrees it holds.
get_cpu_temp(val) == IF val = None THEN 0 ELSE val[1] \div 1000

\* A tick in which the temperature sensor is absent or unreadable.
ServeBodySensorLost ==
    \E current_rpm \in RpmReadings : ServeTick(get_cpu_temp(None), current_rpm)

\* Where serve goes after an exception in a tick: the back-off, then the loop.
AfterErrorExits(t) == [pc |-> "stopped", now |-> t]

AfterError(t) == [pc |-> "top", now |-> t + ERROR_SLEEP]

\* A tick in which a sensor file holds no number: int() raises ValueError in
\* get_cpu_temp, before the sample is pushed, or in get_fan_speed, which the
\* curve branch calls once it has a target.
ServeBodyRaises ==
    /\ pc = "body"
    /\ now + ERROR_SLEEP <= horizon
    /\ \E where \in {"get_cpu_temp", "get_fan_speed"}, sample \in TempReadings :
       \E window \in {WindowOfTick(impl, config, ma_window)} :
       \E history \in {PushSample(temp_history, window, sample)} :
          /\ where = "get_fan_speed" =>
                /\ config.mode = "curve"
                /\ calculate_target_pwm(config, Average(history)) # None
          /\ ma_window' = IF where = "get_fan_speed" THEN window ELSE ma_window
          /\ temp_history' = IF where = "get_fan_speed" THEN history ELSE temp_history
          /\ recent' = IF where = "get_fan_speed"
                       THEN RememberSample(recent, sample) ELSE recent
          /\ tick' = [NoTick EXCEPT !.step = "error", !.mode = config.mode,
                                    !.stored_mode = file.mode, !.time = now,
                                    !.hold_before = hysteresis_start_time,
                                    !.hold_target = HeldTarget,
                                    !.band_write = LastBandWrite]
    /\ pc' = AfterError(now).pc
    /\ now' = AfterError(now).now
    /\ UNCHANGED <<file, file_mtime, file_state, config, last_config_mtime,
                   hysteresis_start_time, impl, pwm1_enable, pwm1, horizon, cal,
                   n_saves, query, result>>

\* A daemon that saves its configuration as it leaves the loop.
ServeInterruptSaves ==
    /\ pc \in {"top", "body"}
    /\ pc' = "stopped"
    /\ tick' = [NoTick EXCEPT !.step = "interrupt", !.mode = config.mode,
                              !.stored_mode = file.mode, !.time = now,
                              !.hold_before = hysteresis_start_time,
                              !.hold_target = HeldTarget,
                              !.band_write = LastBandWrite]
    /\ file' = config
    /\ file_mtime' = file_mtime + 1
    /\ file_state' = "whole"
    /\ UNCHANGED <<config, last_config_mtime, ma_window, temp_history,
                   hysteresis_start_time, impl, pwm1_enable, pwm1, now, horizon,
                   recent, cal, n_saves, query, result>>

\* KeyboardInterrupt, lines 359-361: the loop is left.
ServeInterrupt ==
    /\ pc \in {"top", "body"}
    /\ pc' = "stopped"
    /\ tick' = [NoTick EXCEPT !.step = "interrupt", !.mode = config.mode,
                              !.stored_mode = file.mode, !.time = now,
                              !.hold_before = hysteresis_start_time,
                              !.hold_target = HeldTarget,
                              !.band_write = LastBandWrite]
    /\ UNCHANGED <<file, file_mtime, file_state, config, last_config_mtime, ma_window,
                   temp_history, hysteresis_start_time, impl, pwm1_enable, pwm1, now,
                   horizon, recent, cal, n_saves, query, result>>

---------------------------------------------------------------------------
(* The configurations and the specifications                               *)

ExampleCurve == <<<<30, 0>>, <<60, 40>>, <<90, 85>>>>

CalibratedMax == {0, 6000}

\* The calibrating process before it starts. log is what calibrate() did so far,
\* in order: <<what, value, whether it succeeded>>. start_enable and start_pwm are
\* what the actuator held when the command was given.
\* caller is who runs the calibration, the CLI's calibrate command or the GUI's
\* main window; combo is the GUI's mode_combo selection; mode_before is the mode
\* the stored document held when the caller set it to "calibration".
\* curve_timer and watchdog tell whether the GUI's curve_timer and watchdog_timer
\* are active; temp_history and hysteresis_start_time are the main window's.
CalIdle ==
    [pc |-> "idle", config |-> Defaults, prev_mode |-> "auto", prev_enable |-> 2,
     prev_pwm |-> 0, i |-> 0, max_rpm |-> 0, progress |-> <<>>, returned |-> None,
     log |-> <<>>, start_enable |-> 2, start_pwm |-> 0, interrupted |-> FALSE,
     caller |-> "cli", combo |-> "auto", mode_before |-> "auto",
     curve_timer |-> FALSE, watchdog |-> FALSE, temp_history |-> <<>>,
     hysteresis_start_time |-> None]

\* Curve-mode configurations of a running daemon.
CurveConfigs ==
    {[Defaults EXCEPT !.mode = "curve", !.curve = ExampleCurve,
                      !.curve_interpolation = m, !.fan_max = f, !.ma_window = w] :
        m \in {"smooth", "discrete"}, f \in CalibratedMax, w \in 1..MaxWindow}

\* serve as it enters its loop (lines 278-288), over a stored document doc.
ServeStarts(doc) ==
    /\ file = doc
    /\ file_mtime = 1
    /\ file_state = "whole"
    /\ now = 1
    /\ config = load_config(doc)
    /\ last_config_mtime = 0
    /\ ma_window = load_config(doc).ma_window
    /\ temp_history = <<>>
    /\ hysteresis_start_time = None
    /\ pc = "top"
    /\ impl \in {"omen_cli", "omen_fan_control"}
    /\ pwm1_enable = 2
    /\ pwm1 = 0
    /\ tick = NoTick
    /\ recent = <<>>

\* The daemon alone over a configuration nobody changes.
Init ==
    /\ \E doc \in CurveConfigs : ServeStarts(doc)
    /\ horizon = MaxTime
    /\ cal = CalIdle
    /\ n_saves = 0
    /\ query = <<0, 1>>
    /\ result = None

Next == ServeReload \/ ServeBody

Spec == Init /\ [][Next]_vars

\* What another process (the CLI's set commands, the GUI, an editor) makes of the
\* document it loaded: one field changed.
Edits(doc) ==
    {[doc EXCEPT !.ma_window = w] : w \in 1..MaxWindow}
    \cup {[doc EXCEPT !.fan_max = f] : f \in CalibratedMax}
    \cup {[doc EXCEPT !.mode = m] : m \in Modes \ {"calibration"}}
    \cup {[doc EXCEPT !.curve = <<>>]}

\* The modification time a save leaves, counted in timestamp granules: later than
\* the one before, or the same when both saves fall into one granule.
LaterMtimes(mtime) == {mtime, mtime + 1}

\* save_config of another process: the whole document is rewritten.
ExternalSave ==
    /\ n_saves < MaxSaves
    /\ \E doc \in Edits(load_config(file)) \ {file}, mtime \in LaterMtimes(file_mtime) :
          /\ file' = doc
          /\ file_mtime' = mtime
          /\ file_state' = "whole"
          /\ n_saves' = n_saves + 1
    /\ UNCHANGED <<config, last_config_mtime, ma_window, temp_history,
                   hysteresis_start_time, pc, impl, pwm1_enable, pwm1, now, horizon,
                   tick, recent, cal, query, result>>

\* The daemon over a document that other processes rewrite while it runs.
ReloadInit ==
    /\ \E doc \in {c \in CurveConfigs : c.fan_max > 0 /\ c.ma_window = MaxWindow
                                        /\ c.curve_interpolation = "discrete"} :
          ServeStarts(doc)
    /\ horizon = MaxReloadTime
    /\ cal = CalIdle
    /\ n_saves = 0
    /\ query = <<0, 1>>
    /\ result = None

ReloadNext == ServeReload \/ ServeBody \/ ExternalSave

SpecReload == ReloadInit /\ [][ReloadNext]_vars

\* The daemon alone, every tick eventually taken: the loop of serve has no exit
\* but an interrupt.
LiveInit ==
    /\ \E doc \in {c \in CurveConfigs : c.fan_max > 0 /\ c.ma_window = MaxWindow} :
          ServeStarts(doc)
    /\ horizon = MaxTime
    /\ cal = CalIdle
    /\ n_saves = 0
    /\ query = <<0, 1>>
    /\ result = None

SpecLive == LiveInit /\ [][Next]_vars /\ WF_vars(ServeReload) /\ WF_vars(ServeBody)

---------------------------------------------------------------------------
(* The calibrating process: the calibrate command of omen_cli.py around    *)
(* FanController.calibrate. It is another process than the daemon, with    *)
(* its own controller and its own copy of the configuration, and runs at   *)
(* its own pace beside the daemon's ticks.                                 *)

\* The actions of the calibrating process leave the daemon's variables alone.
DaemonUnchanged ==
    UNCHANGED <<config, last_config_mtime, ma_window, temp_history,
                hysteresis_start_time, pc, impl, now, horizon, tick, recent,
                n_saves, query, result>>

\* write_sys_file: the file holds the value afterwards, unless the write failed
\* (the error is printed and nothing is raised).
write_sys_file(current, value, ok) == IF ok THEN value ELSE current

\* The progress yielded before the step's count is taken into account.
ProgressFromZero(i) == (i * PERCENT_FULL) \div CALIBRATION_STEPS

\* int((i + 1) / steps * 100)
ProgressPercent(i) == ((i + 1) * PERCENT_FULL) \div CALIBRATION_STEPS

\* calibrate, lines 47-51: the controller loads the document, the mode it had is
\* kept, mode = "calibration" is saved.
CalBegin ==
    /\ cal.pc = "idle"
    /\ cal.caller = "cli"
    /\ \E loaded \in {load_config(file)}, mtime \in LaterMtimes(file_mtime) :
          /\ cal' = [cal EXCEPT !.pc = "saved", !.prev_mode = loaded.mode,
                                !.config = [loaded EXCEPT !.mode = "calibration"],
                                !.start_enable = pwm1_enable, !.start_pwm = pwm1,
                                !.mode_before = file.mode]
          /\ file' = [loaded EXCEPT !.mode = "calibration"]
          /\ file_mtime' = mtime
          /\ file_state' = "whole"
    /\ UNCHANGED <<pwm1_enable, pwm1>>
    /\ DaemonUnchanged

\* FanController.calibrate, lines 333-340: the actuator's state is kept and the
\* fan is put to max.
CalSnapshot ==
    /\ cal.pc = "saved"
    /\ \E ok \in BOOLEAN :
          /\ cal' = [cal EXCEPT !.pc = "steps", !.prev_enable = pwm1_enable,
                                !.prev_pwm = pwm1, !.i = 0,
                                !.log = Append(cal.log, <<"write_enable", 0, ok>>)]
          /\ pwm1_enable' = write_sys_file(pwm1_enable,
                                           set_fan_mode("max", pwm1_enable, pwm1).enable,
                                           ok)
    /\ UNCHANGED <<file, file_mtime, file_state, pwm1>>
    /\ DaemonUnchanged

\* Lines 344-346: one sleep of wait_time / steps, then the progress is yielded.
CalStep ==
    /\ cal.pc = "steps"
    /\ cal.i < CALIBRATION_STEPS
    /\ cal' = [cal EXCEPT !.i = cal.i + 1,
                          !.progress = Append(cal.progress, ProgressPercent(cal.i)),
                          !.log = Append(cal.log,
                                         <<"yield", ProgressPercent(cal.i), TRUE>>)]
    /\ UNCHANGED <<file, file_mtime, file_state, pwm1_enable, pwm1>>
    /\ DaemonUnchanged

\* The reading never put into the configuration.
ConfigFanMaxKept(cfg, max_rpm) == cfg

\* self.config["fan_max"] = max_rpm
ConfigWithFanMax(cfg, max_rpm) == [cfg EXCEPT !.fan_max = max_rpm]

\* Lines 348-350: the fan speed is read once, put into fan_max and saved.
CalMeasure ==
    /\ cal.pc = "steps"
    /\ cal.i = CALIBRATION_STEPS
    /\ \E max_rpm \in CalibratedMax, mtime \in LaterMtimes(file_mtime) :
          /\ cal' = [cal EXCEPT !.pc = "restore", !.max_rpm = max_rpm,
                                !.config = ConfigWithFanMax(cal.config, max_rpm),
                                !.log = cal.log \o <<<<"read_rpm", max_rpm, TRUE>>,
                                                     <<"save_fan_max", max_rpm, TRUE>>>>]
          /\ file' = ConfigWithFanMax(cal.config, max_rpm)
          /\ file_mtime' = mtime
          /\ file_state' = "whole"
    /\ UNCHANGED <<pwm1_enable, pwm1>>
    /\ DaemonUnchanged

\* The duty written back whatever the mode was.
RestoreWritesAlwaysDuty(prev_enable, prev_pwm) ==
    <<<<"write_enable", prev_enable>>, <<"write_pwm", prev_pwm>>>>

\* Lines 352-356: the writes of the restore, in order. prev_enable and prev_pwm
\* are non-empty strings, "2" and "0" when nothing could be read.
RestoreWrites(prev_enable, prev_pwm) ==
    <<<<"write_enable", prev_enable>>>>
    \o (IF prev_enable = 1 THEN <<<<"write_pwm", prev_pwm>>>> ELSE <<>>)

\* Lines 352-360: pwm1_enable is put back, and pwm1 when the fan was in manual;
\* then max_rpm is returned.
CalRestore ==
    /\ cal.pc = "restore"
    /\ \E writes \in {RestoreWrites(cal.prev_enable, cal.prev_pwm)} :
       \E ok \in [1..Len(writes) -> BOOLEAN] :
          /\ cal' = [cal EXCEPT
                       !.pc = "finally",
                       !.returned = Some(cal.max_rpm),
                       !.log = cal.log
                               \o [k \in 1..Len(writes) |->
                                      <<writes[k][1], writes[k][2], ok[k]>>]]
          /\ pwm1_enable' = write_sys_file(pwm1_enable, writes[1][2], ok[1])
          /\ pwm1' = IF Len(writes) > 1
                     THEN write_sys_file(pwm1, writes[2][2], ok[2])
                     ELSE pwm1
    /\ UNCHANGED <<file, file_mtime, file_state>>
    /\ DaemonUnchanged

\* The run is interrupted in a sleep between two progress values (lines 57-58 of
\* calibrate, line 345 of FanController.calibrate): the KeyboardInterrupt leaves
\* the generator, which has no handler, and takes the caller to its finally
\* clause.
CalInterrupt ==
    /\ cal.pc = "steps"
    /\ cal.caller = "cli"
    /\ cal.i < CALIBRATION_STEPS
    /\ cal' = [cal EXCEPT !.pc = "finally", !.interrupted = TRUE]
    /\ UNCHANGED <<file, file_mtime, file_state, pwm1_enable, pwm1>>
    /\ DaemonUnchanged

\* calibrate, lines 66-68: the mode is put back and saved.
CalFinish ==
    /\ cal.pc = "finally"
    /\ cal.caller = "cli"
    /\ \E mtime \in LaterMtimes(file_mtime) :
          /\ cal' = [cal EXCEPT !.pc = "done",
                                !.config = [cal.config EXCEPT !.mode = cal.prev_mode]]
          /\ file' = [cal.config EXCEPT !.mode = cal.prev_mode]
          /\ file_mtime' = mtime
          /\ file_state' = "whole"
    /\ UNCHANGED <<pwm1_enable, pwm1>>
    /\ DaemonUnchanged

\* is_service_running(): the daemon runs beside the GUI.
ServiceRunning == pc # "stopped"

\* The GUI's manual_spin, in percent.
ManualSpinPercent == 50

\* MainWindow.start_calibration, lines 1140-1155 of omen_gui.py: mode =
\* "calibration" is saved and calibrate() is given to a worker thread. The mode
\* the document held is not kept.
GuiBegin ==
    /\ cal.pc = "idle"
    /\ cal.caller = "gui"
    /\ \E loaded \in {load_config(file)}, mtime \in LaterMtimes(file_mtime) :
          /\ cal' = [cal EXCEPT !.pc = "saved", !.curve_timer = FALSE,
                                !.config = [loaded EXCEPT !.mode = "calibration"],
                                !.start_enable = pwm1_enable, !.start_pwm = pwm1,
                                !.mode_before = file.mode]
          /\ file' = [loaded EXCEPT !.mode = "calibration"]
          /\ file_mtime' = mtime
          /\ file_state' = "whole"
    /\ UNCHANGED <<pwm1_enable, pwm1>>
    /\ DaemonUnchanged

\* apply_fan_mode, lines 1021-1073 of omen_gui.py, on an actuator that has pwm1:
\* the configuration it saves and what it does to the actuator when no service
\* runs.
ApplyFanMode(cfg, mode, service, enable, pwm) ==
    IF service
    THEN [config |-> [cfg EXCEPT !.mode = mode], act |-> NoWrite(enable, pwm)]
    ELSE IF mode = "manual"
    THEN [config |-> [cfg EXCEPT !.mode = mode,
                                 !.manual_pwm = PercentToPwm(<<ManualSpinPercent, 1>>)],
          act |-> set_fan_pwm(PercentToPwm(<<ManualSpinPercent, 1>>), enable, pwm)]
    ELSE [config |-> [cfg EXCEPT !.mode = mode],
          act |-> set_fan_mode(mode, enable, pwm)]

\* apply_fan_mode's effect on the curve_timer: stopped when the service runs
\* (lines 1047-1051), started by start_curve_loop in curve mode (1073, 1085-1086),
\* else left as it is.
CurveTimerAfterApply(mode, service, timer) ==
    IF service THEN FALSE
    ELSE IF mode = "curve" THEN TRUE
    ELSE timer

\* MainWindow.on_cal_finished, lines 1157-1165: apply_fan_mode with the mode the
\* mode_combo shows.
GuiFinish ==
    /\ cal.pc = "finally"
    /\ cal.caller = "gui"
    /\ \E r \in {ApplyFanMode(cal.config, cal.combo, ServiceRunning, pwm1_enable, pwm1)},
          mtime \in LaterMtimes(file_mtime) :
          /\ cal' = [cal EXCEPT !.pc = "done", !.config = r.config,
                                !.curve_timer = CurveTimerAfterApply(cal.combo,
                                                                     ServiceRunning,
                                                                     cal.curve_timer)]
          /\ file' = r.config
          /\ file_mtime' = mtime
          /\ file_state' = "whole"
          /\ pwm1_enable' = r.act.enable
          /\ pwm1' = r.act.pwm
    /\ DaemonUnchanged

\* The daemon in curve mode when the calibrate command is given.
CalibInit ==
    /\ \E doc \in {c \in CurveConfigs : c.ma_window = 1
                                        /\ c.curve_interpolation = "smooth"} :
          ServeStarts(doc)
    /\ horizon = MaxReloadTime
    /\ cal = CalIdle
    /\ n_saves = 0
    /\ query = <<0, 1>>
    /\ result = None

CalibNext ==
    \/ ServeReload
    \/ ServeBody
    \/ CalBegin
    \/ CalSnapshot
    \/ CalStep
    \/ CalMeasure
    \/ CalRestore
    \/ CalFinish

SpecCalib == CalibInit /\ [][CalibNext]_vars

\* C1: under every interleaving of the daemon's ticks with the calibrating
\* process, a daemon tick that runs while the stored mode is "calibration" writes
\* neither pwm1_enable nor pwm1.
C1_NoDaemonWriteWhileCalibrating ==
    (tick.step = "body" /\ tick.stored_mode = "calibration") => tick.writes = <<>>

---------------------------------------------------------------------------
(* The curve engine on its own: calculate_target_pwm over the curves of up *)
(* to MaxCurveLen points, in the order the document stores them, and over  *)
(* query temperatures given as fractions, as the daemon's average is.      *)

CurveTemps == {30, 50, 70}

CurveDuties == {0, 25, 90}

CurvePoints == {<<t, d>> : t \in CurveTemps, d \in CurveDuties}

Curves == UNION {[1..n -> CurvePoints] : n \in 0..MaxCurveLen} \cup {ExampleCurve}

QueryTemps ==
    {<<0, 1>>, <<30, 1>>, <<40, 1>>, <<100, 2>>, <<115, 2>>, <<70, 1>>, <<75, 1>>,
     <<300, 1>>}

CurveInit ==
    /\ \E curve \in Curves, m \in {"smooth", "discrete"} :
          /\ file = [Defaults EXCEPT !.mode = "curve", !.curve = curve,
                                     !.curve_interpolation = m]
          /\ config = load_config(file)
    /\ query \in QueryTemps
    /\ result = None
    /\ pc = "calculate"
    /\ file_mtime = 1
    /\ file_state = "whole"
    /\ last_config_mtime = 1
    /\ now = 1
    /\ horizon = 1
    /\ ma_window = config.ma_window
    /\ temp_history = <<>>
    /\ hysteresis_start_time = None
    /\ impl = "omen_cli"
    /\ pwm1_enable = 2
    /\ pwm1 = 0
    /\ tick = NoTick
    /\ recent = <<>>
    /\ cal = CalIdle
    /\ n_saves = 0

\* One call of calculate_target_pwm on the controller's configuration.
CalculateTarget ==
    /\ pc = "calculate"
    /\ result' = calculate_target_pwm(config, query)
    /\ pc' = "calculated"
    /\ UNCHANGED <<file, file_mtime, file_state, config, last_config_mtime, ma_window,
                   temp_history, hysteresis_start_time, impl, pwm1_enable, pwm1, now,
                   horizon, tick, recent, cal, n_saves, query>>

CurveNext == CalculateTarget

SpecCurve == CurveInit /\ [][CurveNext]_vars

\* The conversion of a point's duty, as a present result.
DutyResult(point) == Some(PercentToPwm(<<point[2], 1>>))

\* The query is at or below the lowest temperature of the curve.
QueryAtOrBelowLowest ==
    FracLeInt(query, SortedCurve(config.curve)[1][1])

\* The query is at or above the highest temperature of the curve.
QueryAtOrAboveHighest ==
    IntLeFrac(SortedCurve(config.curve)[Len(config.curve)][1], query)

\* C9 as claimed: for a non-empty curve, a query at or below the lowest
\* temperature gives the duty of the first point of the sorted curve, and a query
\* at or above the highest temperature gives the duty of the last point.
C9_ClampsAtBothEnds ==
    (pc = "calculated" /\ config.curve # <<>>) =>
        /\ QueryAtOrBelowLowest => result = DutyResult(SortedCurve(config.curve)[1])
        /\ QueryAtOrAboveHighest =>
              result = DutyResult(SortedCurve(config.curve)[Len(config.curve)])

\* C9 as amended: for a non-empty curve, a query at or below the lowest
\* temperature gives the duty of the first point of the sorted curve, and a query
\* at or above the highest temperature and above the lowest gives the duty of the
\* last point, however far outside the query lies and in both interpolation modes.
C9_LowClampFirst ==
    (pc = "calculated" /\ config.curve # <<>>) =>
        /\ QueryAtOrBelowLowest => result = DutyResult(SortedCurve(config.curve)[1])
        /\ (QueryAtOrAboveHighest /\ ~QueryAtOrBelowLowest) =>
              result = DutyResult(SortedCurve(config.curve)[Len(config.curve)])

\* A curve stored out of order, queried far above its highest temperature.
C9_Witness ==
    /\ pc = "calculated"
    /\ config.curve = <<<<70, 90>>, <<30, 0>>, <<50, 25>>>>
    /\ query = <<300, 1>>
    /\ result = Some(230)

\* The query is the temperature of the curve's i-th point.
QueryAtPoint(i) ==
    /\ FracLeInt(query, config.curve[i][1])
    /\ IntLeFrac(config.curve[i][1], query)

\* C10 as claimed: in smooth mode, the target at the temperature of any point of
\* the curve is the conversion of that point's duty.
C10_ExactAtKnots ==
    (pc = "calculated" /\ config.curve_interpolation = "smooth") =>
        \A i \in 1..Len(config.curve) :
            QueryAtPoint(i) => result = DutyResult(config.curve[i])

\* C10 as amended: in smooth mode, the target at the temperature of a point whose
\* temperature no other point of the curve has is the conversion of that point's
\* duty.
C10_ExactAtUnsharedKnots ==
    (pc = "calculated" /\ config.curve_interpolation = "smooth") =>
        \A i \in 1..Len(config.curve) :
            (/\ QueryAtPoint(i)
             /\ \A j \in 1..Len(config.curve) :
                   j # i => config.curve[j][1] # config.curve[i][1])
            => result = DutyResult(config.curve[i])

\* The middle knot of a three-point curve, queried by an average of two samples.
C10_Witness ==
    /\ pc = "calculated"
    /\ config.curve_interpolation = "smooth"
    /\ config.curve = <<<<30, 0>>, <<50, 25>>, <<70, 90>>>>
    /\ query = <<100, 2>>
    /\ result = Some(64)

\* q1 <= q2 on fractions
QueryLe(q1, q2) == q1[1] * q2[2] <= q2[1] * q1[2]

\* The stored curve is in ascending order of temperature.
StoredAscending ==
    \A i \in 1..(Len(config.curve) - 1) : config.curve[i][1] <= config.curve[i + 1][1]

DutiesNonDecreasing ==
    \A i \in 1..(Len(config.curve) - 1) : config.curve[i][2] <= config.curve[i + 1][2]

TemperaturesDistinct ==
    \A i, j \in 1..Len(config.curve) :
        i # j => config.curve[i][1] # config.curve[j][1]

\* The targets of the configuration's curve over the query temperatures.
TargetTable == [q \in QueryTemps |-> calculate_target_pwm(config, q)]

\* The target never falls from a query temperature to a higher one.
TargetNonDecreasing ==
    \E table \in {TargetTable} :
        \A q1, q2 \in QueryTemps : QueryLe(q1, q2) => table[q1][1] <= table[q2][1]

\* C11 as claimed: for a curve of two or more points in ascending order of
\* temperature, the target is non-decreasing in the temperature if and only if
\* the duties are non-decreasing in curve order.
C11_MonotoneIffDuties ==
    (pc = "calculated" /\ Len(config.curve) >= 2 /\ StoredAscending) =>
        (TargetNonDecreasing <=> DutiesNonDecreasing)

\* C11 as amended: for such a curve, non-decreasing duties give a target that is
\* non-decreasing in the temperature; and when no two points share a temperature,
\* a target that is non-decreasing in the temperature has non-decreasing duties.
C11_MonotoneIffDutiesDistinct ==
    (pc = "calculated" /\ Len(config.curve) >= 2 /\ StoredAscending) =>
        /\ DutiesNonDecreasing => TargetNonDecreasing
        /\ (TemperaturesDistinct /\ TargetNonDecreasing) => DutiesNonDecreasing

\* A rising curve with a point shared by two segments, queried between its knots.
C11_Witness ==
    /\ pc = "calculated"
    /\ config.curve = <<<<30, 0>>, <<50, 25>>, <<70, 90>>>>
    /\ config.curve_interpolation = "smooth"
    /\ query = <<115, 2>>
    /\ result = Some(126)
    /\ TargetNonDecreasing

\* The query lies strictly between the lowest and the highest temperature.
QueryStrictlyInside ==
    /\ config.curve # <<>>
    /\ ~QueryAtOrBelowLowest
    /\ ~QueryAtOrAboveHighest

\* The first segment of the sorted curve with p1.temp <= query <= p2.temp.
FirstBracket ==
    LET c == SortedCurve(config.curve)
    IN  CHOOSE i \in 1..(Len(c) - 1) :
            /\ IntLeFrac(c[i][1], query) /\ FracLeInt(query, c[i + 1][1])
            /\ \A k \in 1..(i - 1) :
                  ~(IntLeFrac(c[k][1], query) /\ FracLeInt(query, c[k + 1][1]))

\* p1.duty + (t - p1.temp) / (p2.temp - p1.temp) * (p2.duty - p1.duty), and
\* p2.duty when the two temperatures are the same, as a fraction.
SmoothPercent(p1, p2, t) ==
    IF p2[1] = p1[1] THEN <<p2[2], 1>>
    ELSE <<p1[2] * t[2] * (p2[1] - p1[1]) + (t[1] - p1[1] * t[2]) * (p2[2] - p1[2]),
           t[2] * (p2[1] - p1[1])>>

\* pwm is round(percent / 100 * 255): the nearest integer, the even one of two
\* that are equally near.
IsRoundOfPercent(pwm, percent) ==
    LET num == percent[1] * 255
        den == percent[2] * 100
        off == IF pwm * den >= num THEN pwm * den - num ELSE num - pwm * den
    IN  /\ 2 * off <= den
        /\ 2 * off = den => pwm % 2 = 0

\* C12: in smooth mode, for a query strictly inside the curve range, the value
\* for the actuator is round(percent / 100 * 255) of the percent interpolated on
\* the first bracketing segment; for curve [(30,0),(60,40),(90,85)] and t = 75
\* that is 62.5 percent and PWM 159.
C12_SmoothInterpolation ==
    (pc = "calculated" /\ config.curve_interpolation = "smooth" /\ QueryStrictlyInside) =>
        /\ result # None
        /\ IsRoundOfPercent(result[1],
                            SmoothPercent(SortedCurve(config.curve)[FirstBracket],
                                          SortedCurve(config.curve)[FirstBracket + 1],
                                          query))
        /\ (config.curve = <<<<30, 0>>, <<60, 40>>, <<90, 85>>>> /\ query = <<75, 1>>) =>
              /\ 2 * SmoothPercent(<<60, 40>>, <<90, 85>>, query)[1]
                    = 125 * SmoothPercent(<<60, 40>>, <<90, 85>>, query)[2]
              /\ result = Some(159)

\* The example: 75 degrees on [(30,0),(60,40),(90,85)].
C12_Witness ==
    /\ pc = "calculated"
    /\ config.curve_interpolation = "smooth"
    /\ config.curve = <<<<30, 0>>, <<60, 40>>, <<90, 85>>>>
    /\ query = <<75, 1>>
    /\ QueryStrictlyInside
    /\ FirstBracket = 2
    /\ result = Some(159)

\* C13: in discrete mode, for a query strictly inside the curve range, the
\* percent is the duty of the lower point of the first bracketing segment; for
\* curve [(30,0),(60,40),(90,85)] and t = 75 that is 40 percent and PWM 102.
C13_DiscreteStep ==
    (pc = "calculated" /\ config.curve_interpolation = "discrete"
                       /\ QueryStrictlyInside) =>
        /\ result # None
        /\ IsRoundOfPercent(result[1],
                            <<SortedCurve(config.curve)[FirstBracket][2], 1>>)
        /\ (config.curve = <<<<30, 0>>, <<60, 40>>, <<90, 85>>>> /\ query = <<75, 1>>) =>
              /\ SortedCurve(config.curve)[FirstBracket] = <<60, 40>>
              /\ result = Some(102)

\* The example in discrete mode.
C13_Witness ==
    /\ pc = "calculated"
    /\ config.curve_interpolation = "discrete"
    /\ config.curve = <<<<30, 0>>, <<60, 40>>, <<90, 85>>>>
    /\ query = <<75, 1>>
    /\ QueryStrictlyInside
    /\ result = Some(102)

---------------------------------------------------------------------------
(* The governor                                                            *)

\* The last daemon step was a curve-mode tick with a target and a calibrated fan.
CurveTickCalibrated ==
    /\ tick.step = "body"
    /\ tick.mode = "curve"
    /\ tick.target # None
    /\ tick.max_rpm > 0

\* diff = |targetPwm / 255 * fanMax - currentRpm| <= 200 in that tick
TickDiffInBand ==
    Abs(tick.target[1] * tick.max_rpm - tick.current_rpm * 255) <= 200 * 255

\* The tick's last write put the tick's target into pwm1.
TickWroteTarget ==
    /\ tick.writes # <<>>
    /\ tick.writes[Len(tick.writes)] = <<"pwm1", tick.target[1]>>
    /\ pwm1 = tick.target[1]

\* C2: in a curve-mode tick with a target, fanMax > 0 and diff <= 200: with no
\* hold in progress the tick starts the hold at the current time and writes
\* nothing; with a hold more than 60 seconds old it writes the target and clears
\* the hold; otherwise it writes nothing and keeps the hold start.
C2_InBandHoldRule ==
    (CurveTickCalibrated /\ TickDiffInBand) =>
        IF tick.hold_before = None
        THEN tick.writes = <<>> /\ hysteresis_start_time = Some(tick.time)
        ELSE IF tick.time - tick.hold_before[1] > 60
             THEN TickWroteTarget /\ hysteresis_start_time = None
             ELSE tick.writes = <<>> /\ hysteresis_start_time = tick.hold_before

\* fanMax = 6000, diff = 50: the hold started by the first tick has expired and
\* the target is written.
C2_Witness ==
    /\ CurveTickCalibrated
    /\ tick.max_rpm = 6000
    /\ tick.target = Some(102)
    /\ tick.current_rpm = 2350
    /\ tick.hold_before = Some(1)
    /\ tick.time - 1 > 60
    /\ TickWroteTarget

\* C3: in a curve-mode tick with a target and fanMax > 0, diff > 200 writes the
\* target in that tick and leaves no hold, whatever the hold was before.
C3_LargeDeviationWins ==
    (CurveTickCalibrated /\ ~TickDiffInBand) =>
        TickWroteTarget /\ hysteresis_start_time = None

\* A large deviation during a hold.
C3_Witness ==
    /\ CurveTickCalibrated
    /\ ~TickDiffInBand
    /\ tick.hold_before # None
    /\ TickWroteTarget
    /\ hysteresis_start_time = None

\* A curve-mode tick with a target and a fan that was never calibrated.
CurveTickUncalibrated ==
    /\ tick.step = "body"
    /\ tick.mode = "curve"
    /\ tick.target # None
    /\ tick.max_rpm = 0

\* C4: in a curve-mode tick with a target and fanMax = 0 the target is written in
\* that tick, for every fan speed read and every hold state before it, and no hold
\* is left.
C4_UncalibratedAlwaysApplies ==
    CurveTickUncalibrated => (TickWroteTarget /\ hysteresis_start_time = None)

\* fanMax was set to 0 while a hold was in progress; the fan speed read equals the
\* target's.
C4_Witness ==
    /\ CurveTickUncalibrated
    /\ tick.hold_before # None
    /\ tick.current_rpm = 0
    /\ tick.target = Some(0)
    /\ TickWroteTarget
    /\ hysteresis_start_time = None

\* A hold that started early enough for its 60 seconds to pass within the run.
HoldInProgress ==
    /\ hysteresis_start_time # None
    /\ hysteresis_start_time[1] + HYSTERESIS_SECONDS + 2 * TICK_SLEEP <= MaxTime

\* A tick ended a hold by writing its own target; if the tick was within the noise
\* band, it is the first tick more than 60 seconds after the hold started.
HoldWrittenOut ==
    /\ CurveTickCalibrated
    /\ tick.hold_before # None
    /\ TickWroteTarget
    /\ hysteresis_start_time = None
    /\ TickDiffInBand => (/\ tick.time - tick.hold_before[1] > 60
                          /\ tick.time - tick.hold_before[1] <= 62)

\* C5: the governor never suppresses forever. In curve mode with a non-empty curve
\* and fanMax > 0, with ticks that keep occurring, a hold in progress leads to a
\* tick that writes its then-current target, on the first tick more than 60
\* seconds after the hold started when every tick stays within the noise band.
C5_HoldLeadsToWrite == HoldInProgress ~> HoldWrittenOut

\* An expired hold is written out by an in-band tick.
C5_Witness ==
    /\ CurveTickCalibrated
    /\ TickDiffInBand
    /\ tick.hold_before # None
    /\ tick.time - tick.hold_before[1] = 62
    /\ TickWroteTarget

---------------------------------------------------------------------------
(* The smoother                                                            *)

LastN(s, n) == SubSeq(s, Len(s) - n + 1, Len(s))

\* C6: with a constant maWindow = N, once N or more samples have been pushed the
\* average of a tick is the arithmetic mean of the N most recent samples (for
\* N = 1, the last sample).
C6_AverageOfLastN ==
    (tick.step = "body" /\ Len(recent) >= config.ma_window) =>
        tick.avg = <<SumSeq(LastN(recent, config.ma_window)), config.ma_window>>

\* The third push into a window of two: the first sample is gone.
C6_Witness ==
    /\ tick.step = "body"
    /\ config.ma_window = 2
    /\ tick.time = 5
    /\ LastN(recent, 2) = <<45, 75>>
    /\ temp_history = <<45, 75>>
    /\ tick.avg = <<120, 2>>

\* C7: after every tick of omen_cli.serve the history holds at most as many
\* samples as the maWindow of the configuration the tick ran with.
C7_HistoryWithinWindow ==
    (impl = "omen_cli" /\ tick.step = "body") => Len(temp_history) <= tick.cfg_window

\* C8: in every tick, of either serve, the window that bounds the history is the
\* maWindow of the configuration as reloaded in that tick.
C8_WindowIsReloadedConfig ==
    tick.step = "body" => tick.window = tick.cfg_window

---------------------------------------------------------------------------
(* The empty curve                                                         *)

\* A curve-mode tick has just ended: the configuration is the one it ran with.
CurveTickEnded ==
    /\ pc = "top"
    /\ tick.step = "body"
    /\ tick.mode = "curve"

\* C14: with an empty curve the curve computation gives no target, whatever the
\* temperature, and the curve-mode tick writes nothing to the actuator and leaves
\* the hold as it was.
C14_EmptyCurveNoWrite ==
    (CurveTickEnded /\ config.curve = <<>>) =>
        /\ tick.target = None
        /\ tick.writes = <<>>
        /\ hysteresis_start_time = tick.hold_before

\* The curve was emptied while a hold was in progress.
C14_Witness ==
    /\ CurveTickEnded
    /\ config.curve = <<>>
    /\ tick.hold_before # None
    /\ tick.target = None
    /\ tick.writes = <<>>
    /\ hysteresis_start_time = tick.hold_before

---------------------------------------------------------------------------
(* A calibration run with no daemon beside it                              *)

ActuatorModes == {0, 1, 2}

ActuatorDuties == {0, 128}

\* The calibrate command given while no daemon runs, whatever the actuator's
\* state and the stored mode.
CalibRunInit ==
    /\ \E m \in Modes \ {"calibration"}, f \in CalibratedMax :
          file = [Defaults EXCEPT !.mode = m, !.fan_max = f]
    /\ pwm1_enable \in ActuatorModes
    /\ pwm1 \in ActuatorDuties
    /\ \/ cal = CalIdle
       \/ \E m \in Modes \ {"calibration"} :
             cal = [CalIdle EXCEPT !.caller = "gui", !.combo = m]
    /\ config = Defaults
    /\ pc = "stopped"
    /\ file_mtime = 1
    /\ file_state = "whole"
    /\ last_config_mtime = 0
    /\ now = 1
    /\ horizon = 1
    /\ ma_window = DEFAULT_MA_WINDOW
    /\ temp_history = <<>>
    /\ hysteresis_start_time = None
    /\ impl = "omen_cli"
    /\ tick = NoTick
    /\ recent = <<>>
    /\ n_saves = 0
    /\ query = <<0, 1>>
    /\ result = None

CalibRunNext ==
    \/ CalBegin
    \/ GuiBegin
    \/ GuiFinish
    \/ CalSnapshot
    \/ CalStep
    \/ CalMeasure
    \/ CalRestore
    \/ CalInterrupt
    \/ CalFinish

SpecCalibRun == CalibRunInit /\ [][CalibRunNext]_vars

\* The values of the log's entries of one kind, in order.
LogValues(kind) ==
    LET IsKind(e) == e[1] = kind
        es == SelectSeq(cal.log, IsKind)
    IN  [k \in 1..Len(es) |-> es[k][2]]

\* The number of progress values yielded before the log's k-th entry.
YieldsBefore(k) ==
    Cardinality({j \in 1..(k - 1) : cal.log[j][1] = "yield"})

\* The run has gone through calibrate() to its return.
CalibrateReturned == cal.returned # None

\* calibrate() has returned and its caller has not gone on yet.
CalibrateJustReturned == cal.returned # None /\ cal.pc = "finally"

\* C15: a calibration run driven to its end has yielded exactly the ten progress
\* values 10, 20, ..., 100 in that order, then read the fan speed once, then saved
\* the reading as fan_max, then written the kept pwm1_enable back; and at no
\* moment of a run is there a fan speed read, a save or a write back before the
\* tenth progress value.
C15_ProgressThenMeasure ==
    /\ CalibrateReturned =>
          /\ LogValues("yield") = [k \in 1..10 |-> 10 * k]
          /\ cal.progress = LogValues("yield")
          /\ SubSeq(cal.log, 12, 14) = <<<<"read_rpm", cal.max_rpm, TRUE>>,
                                         <<"save_fan_max", cal.max_rpm, TRUE>>,
                                         <<"write_enable", cal.prev_enable,
                                           cal.log[14][3]>>>>
          /\ Len(LogValues("read_rpm")) = 1
          /\ file.fan_max = cal.max_rpm
    /\ \A k \in 2..Len(cal.log) :
          cal.log[k][1] \in {"read_rpm", "save_fan_max", "write_enable", "write_pwm"}
              => YieldsBefore(k) = 10

\* A finished run whose reading was 6000.
C15_Witness ==
    /\ cal.pc = "done"
    /\ cal.progress = <<10, 20, 30, 40, 50, 60, 70, 80, 90, 100>>
    /\ cal.max_rpm = 6000
    /\ file.fan_max = 6000
    /\ cal.log[12] = <<"read_rpm", 6000, TRUE>>
    /\ cal.log[14] = <<"write_enable", cal.prev_enable, TRUE>>

\* Every write calibrate() made succeeded.
AllWritesSucceeded ==
    \A k \in 1..Len(cal.log) : cal.log[k][3]

RestoreWriteFailed ==
    \E k \in 2..Len(cal.log) :
        /\ cal.log[k][1] \in {"write_enable", "write_pwm"}
        /\ ~cal.log[k][3]

\* C17: when writes of the restore step fail, the run has still saved the
\* measured max_rpm as fan_max and still returns it: calibrate() ends by its
\* return, not by an error.
C17_ResultSurvivesRestoreFailure ==
    RestoreWriteFailed =>
        /\ cal.pc \in {"finally", "done"}
        /\ cal.returned = Some(cal.max_rpm)
        /\ cal.config.fan_max = cal.max_rpm
        /\ file.fan_max = cal.max_rpm
        /\ LogValues("save_fan_max") = <<cal.max_rpm>>

\* Both writes of the restore failed: the fan is left at max, the result is kept.
C17_Witness ==
    /\ RestoreWriteFailed
    /\ cal.start_enable = 1
    /\ cal.log[1] = <<"write_enable", 0, TRUE>>
    /\ cal.log[14] = <<"write_enable", 1, FALSE>>
    /\ cal.log[15] = <<"write_pwm", 128, FALSE>>
    /\ pwm1_enable = 0
    /\ file.fan_max = 6000
    /\ cal.returned = Some(6000)
    /\ cal.pc = "done"

\* calibrate() made an attempt, successful or not, to write the kept pwm1_enable
\* back.
RestoreAttempted ==
    \E k \in 2..Len(cal.log) :
        /\ cal.log[k][1] = "write_enable"
        /\ cal.log[k][2] = cal.prev_enable

\* C18: a calibration run interrupted between two progress values still attempts
\* to put back the pwm1_enable (and the pwm1, if manual) kept at its start.
C18_RestoreOnInterrupt ==
    (/\ cal.interrupted
     /\ Len(cal.progress) \in 1..(CALIBRATION_STEPS - 1)
     /\ cal.pc = "done") => RestoreAttempted

\* C19: after a calibration started by the CLI or by the GUI has ended (for the
\* CLI also by an interrupt), the stored mode is the mode the document held just
\* before the caller set it to "calibration".
C19_ModeRestored ==
    cal.pc = "done" => file.mode = cal.mode_before

---------------------------------------------------------------------------
(* The daemon's configuration against the stored document                  *)

\* C20: at the end of the reload step of every tick the daemon's configuration is
\* the stored document, whatever saves came before and whatever modification
\* times they carried.
C20_ReloadCatchesUp ==
    [][ServeReload => config' = load_config(file')]_vars

---------------------------------------------------------------------------
(* The daemon over a store that is written in two steps, removed, or found *)
(* without a whole document                                                *)

\* What the writers of this section make of the document they loaded: the mode
\* is switched between curve and manual.
ModeEdits(doc) == {[doc EXCEPT !.mode = m] : m \in {"curve", "manual"}} \ {doc}

\* save_config, line 195: open(config_path, "w") creates or truncates the file.
\* file is from here on the document this writer is about to dump.
SaveOpen ==
    /\ n_saves < MaxStoreSaves
    /\ file_state # "partial"
    /\ \E doc \in ModeEdits(load_config_from(file_state, file)),
          mtime \in LaterMtimes(file_mtime) :
          /\ file' = doc
          /\ file_mtime' = mtime
    /\ file_state' = "partial"
    /\ n_saves' = n_saves + 1
    /\ UNCHANGED <<config, last_config_mtime, ma_window, temp_history,
                   hysteresis_start_time, pc, impl, pwm1_enable, pwm1, now, horizon,
                   tick, recent, cal, query, result>>

\* save_config, line 196: json.dump has written the document out and the file is
\* closed.
SaveWrite ==
    /\ file_state = "partial"
    /\ \E mtime \in LaterMtimes(file_mtime) : file_mtime' = mtime
    /\ file_state' = "whole"
    /\ UNCHANGED <<file, config, last_config_mtime, ma_window, temp_history,
                   hysteresis_start_time, pc, impl, pwm1_enable, pwm1, now, horizon,
                   tick, recent, cal, n_saves, query, result>>

\* config.json is removed while the daemon runs.
RemoveStore ==
    /\ n_saves < MaxStoreSaves
    /\ file_state = "whole"
    /\ file_state' = "absent"
    /\ n_saves' = n_saves + 1
    /\ UNCHANGED <<file, file_mtime, config, last_config_mtime, ma_window,
                   temp_history, hysteresis_start_time, pc, impl, pwm1_enable, pwm1,
                   now, horizon, tick, recent, cal, query, result>>

\* serve as it enters its loop over a store that may be absent or hold no whole
\* document: FanController.__init__ loads what it finds.
StoreInit ==
    /\ file = [Defaults EXCEPT !.mode = "curve", !.curve = ExampleCurve,
                               !.curve_interpolation = "discrete",
                               !.fan_max = 6000, !.ma_window = MaxWindow]
    /\ file_mtime = 1
    /\ file_state \in {"whole", "partial", "absent"}
    /\ now = 1
    /\ config = load_config_from(file_state, file)
    /\ last_config_mtime = 0
    /\ ma_window = config.ma_window
    /\ temp_history = <<>>
    /\ hysteresis_start_time = None
    /\ pc = "top"
    /\ impl \in {"omen_cli", "omen_fan_control"}
    /\ pwm1_enable = 2
    /\ pwm1 = 0
    /\ tick = NoTick
    /\ recent = <<>>
    /\ horizon = MaxStoreTime
    /\ cal = CalIdle
    /\ n_saves = 0
    /\ query = <<0, 1>>
    /\ result = None

StoreNext == ServeReload \/ ServeBody \/ SaveOpen \/ SaveWrite \/ RemoveStore

SpecStore == StoreInit /\ [][StoreNext]_vars

\* C21: a reload step either leaves the daemon's configuration as it was or makes
\* it the defaults overlaid with a document that is wholly in the store; it never
\* takes a store that a writer has opened and not yet written out.
C21_NoPartialReload ==
    [][ServeReload => \/ config' = config
                      \/ file_state = "whole" /\ config' = load_config(file)]_vars

\* C26: a curve tick that follows a tick of another mode (here: manual) starts
\* with no hold in progress.
C26_HoldResetOnModeChange ==
    [][(/\ ServeBody
        /\ config.mode = "curve"
        /\ tick.step = "body"
        /\ tick.mode = "manual") => hysteresis_start_time = None]_vars

\* The daemon ran a curve tick and its reload step has since put the defaults in
\* place of that configuration.
DefaultsAfterCurve ==
    /\ pc = "body"
    /\ tick.step = "body"
    /\ tick.mode = "curve"
    /\ config = Defaults

\* C27 as stated: whenever the store is absent or holds no whole document when
\* the daemon loads or reloads, its configuration becomes the defaults.
C27_DefaultsWhenUnloadable ==
    /\ file_state # "whole" => config = Defaults
    /\ [][(ServeReload /\ file_state # "whole") => config' = Defaults]_vars

\* C27 amended: at start an absent or unparsable store gives the defaults; a
\* reload step gives the defaults when the store holds no whole document and its
\* modification time is later than the last one seen, and leaves the
\* configuration as it was when the store is absent.
C27_DefaultsWhenUnparsable ==
    /\ file_state # "whole" => config = Defaults
    /\ [][ServeReload =>
            /\ (file_state = "partial" /\ file_mtime > last_config_mtime)
                   => config' = Defaults
            /\ file_state = "absent" => config' = config]_vars

C27_Witness ==
    /\ DefaultsAfterCurve
    /\ file_state = "partial"
    /\ last_config_mtime = file_mtime

---------------------------------------------------------------------------
(* The daemon with failing sensors, errors in a tick and an interrupt      *)

\* A mode string that is none of the five the daemon knows.
UnknownMode == "turbo"

\* The stored documents of this section: every mode, manual with a duty and
\* without one.
FaultConfigs ==
    {[Defaults EXCEPT !.mode = m, !.curve = ExampleCurve,
                      !.curve_interpolation = "discrete", !.fan_max = 6000,
                      !.ma_window = MaxWindow, !.manual_pwm = d] :
        m \in {"curve", "manual", "max", "auto", UnknownMode}, d \in {-1, 128}}

FaultInit ==
    /\ \E doc \in FaultConfigs : ServeStarts(doc)
    /\ horizon = MaxFaultTime
    /\ cal = CalIdle
    /\ n_saves = 0
    /\ query = <<0, 1>>
    /\ result = None

FaultNext ==
    \/ ServeReload
    \/ ServeBody
    \/ ServeBodySensorLost
    \/ ServeBodyRaises
    \/ ServeInterrupt

\* No step of the loop waits for anything but time: a tick that can be taken is
\* taken.
SpecFaults ==
    FaultInit /\ [][FaultNext]_vars /\ WF_vars(ServeReload) /\ WF_vars(ServeBody)

\* The daemon is in a tick that the time followed still has room for.
InTick == pc = "body" /\ now + TICK_SLEEP <= horizon

\* The loop is back at its top, or was left by an interrupt.
AtTopOrInterrupted == pc = "top" \/ tick.step = "interrupt"

\* C22: the loop is left by an interrupt only, and from every tick under way the
\* loop comes back to its top, where the next tick begins, whether the tick
\* ended in an error or not.
C22_LoopSurvivesErrors ==
    /\ [][pc' = "stopped" => ServeInterrupt]_vars
    /\ InTick ~> AtTopOrInterrupted

\* A tick has run to its end after an earlier tick ended in an error: ticks
\* start at odd times until the first back-off.
C22_Witness ==
    /\ tick.step = "body"
    /\ tick.time % 2 = 0
    /\ pc = "top"

\* C23: a tick in which the temperature sensor is absent or unreadable pushes no
\* sample and writes nothing to the actuator, and the loop goes on.
C23_SensorLostSkipsTick ==
    [][ServeBodySensorLost => /\ temp_history' = temp_history
                              /\ pwm1_enable' = pwm1_enable
                              /\ pwm1' = pwm1
                              /\ pc' = "top"]_vars

\* C24: a tick whose mode is none of auto, max, manual, curve, calibration writes
\* nothing to the actuator, leaves the hold alone and ends like any other tick.
C24_UnknownModeNoWrite ==
    [][((ServeBody \/ ServeBodySensorLost) /\ config.mode \notin Modes) =>
            /\ tick'.writes = <<>>
            /\ pwm1_enable' = pwm1_enable
            /\ pwm1' = pwm1
            /\ hysteresis_start_time' = hysteresis_start_time
            /\ tick'.step = "body"
            /\ pc' = "top"]_vars

C24_Witness ==
    /\ tick.step = "body"
    /\ tick.mode = UnknownMode
    /\ pc = "top"

---------------------------------------------------------------------------
(* The modes that are applied without the governor                         *)

\* A tick of the given mode has just ended: config is the configuration it ran
\* with, and nothing has touched the actuator since.
TickEnded(mode) == pc = "top" /\ tick.step = "body" /\ tick.mode = mode

\* C25: every manual tick with manual_pwm >= 0 writes manual_pwm to pwm1, with
\* pwm1_enable put to 1 first unless it is 1 already; every max tick writes 0 and
\* every auto tick writes 2 to pwm1_enable; whatever the hold, the fan speed,
\* fan_max and the temperature are, and the hold is left as it was.
C25_PlainModesEveryTick ==
    /\ (TickEnded("manual") /\ config.manual_pwm >= 0) =>
          /\ tick.writes \in {<<<<"pwm1", config.manual_pwm>>>>,
                              <<<<"pwm1_enable", 1>>, <<"pwm1", config.manual_pwm>>>>}
          /\ pwm1 = config.manual_pwm
          /\ pwm1_enable = 1
          /\ hysteresis_start_time = tick.hold_before
    /\ TickEnded("max") =>
          /\ tick.writes = <<<<"pwm1_enable", 0>>>>
          /\ pwm1_enable = 0
          /\ hysteresis_start_time = tick.hold_before
    /\ TickEnded("auto") =>
          /\ tick.writes = <<<<"pwm1_enable", 2>>>>
          /\ pwm1_enable = 2
          /\ hysteresis_start_time = tick.hold_before

\* A manual tick has written the duty while a hold started in curve mode was in
\* progress.
C25_Witness ==
    /\ tick.step = "body"
    /\ tick.mode = "manual"
    /\ tick.hold_before # None
    /\ tick.writes = <<<<"pwm1_enable", 1>>, <<"pwm1", 0>>>>

---------------------------------------------------------------------------
(* The daemon's ticks while its configuration says calibration             *)

\* C30: a tick whose configuration, after the reload step, has mode calibration
\* pushes no sample, leaves the hold and the actuator as they are, sleeps and
\* starts the next tick at the reload check.
C30_CalibrationTickIdles ==
    [][(ServeReload /\ config'.mode = "calibration") =>
            /\ UNCHANGED <<temp_history, recent, ma_window, hysteresis_start_time,
                           pwm1_enable, pwm1>>
            /\ tick'.step = "idle"
            /\ tick'.writes = <<>>
            /\ now' = now + CALIBRATION_SLEEP
            /\ pc' = "top"]_vars

\* The daemon, with samples in its history, has idled through a tick.
C30_Witness ==
    /\ tick.step = "idle"
    /\ tick.mode = "calibration"
    /\ config.mode = "calibration"
    /\ temp_history # <<>>
    /\ pc = "top"

---------------------------------------------------------------------------
(* The controller called directly: check_board_support, set_fan_mode and   *)
(* set_fan_pwm, with no daemon running                                     *)

\* Boards of the two lists of omen_logic.py: "84DA" is in both, "8BD4" in
\* SUPPORTED_BOARDS only, "8A13" in POSSIBLY_SUPPPORTED_OMEN_BOARDS only.
SUPPORTED_BOARDS == {"84DA", "8BD4"}

POSSIBLY_SUPPPORTED_OMEN_BOARDS == {"84DA", "8A13"}

\* What /sys/class/dmi/id/board_name gives, stripped: a board of either list, of
\* both, of neither, nothing; None when it cannot be read.
DmiReads == {Some(b) : b \in {"84DA", "8BD4", "8A13", "0000", ""}} \cup {None}

\* Python's truth of config.get("cached_board_name").
Cached(cfg) == cfg.cached_board_name # None /\ cfg.cached_board_name[1] # ""

\* Lines 104-109.
Classify(board_name) ==
    IF board_name \in SUPPORTED_BOARDS THEN "SUPPORTED"
    ELSE IF board_name \in POSSIBLY_SUPPPORTED_OMEN_BOARDS THEN "POSSIBLY_SUPPORTED"
    ELSE "UNSUPPORTED"

\* check_board_support over the board name the DMI file gives (dmi) and whether
\* save_config succeeds (save_ok): what it returns, the configuration it leaves
\* in memory, whether it read the DMI file and whether it saved. identifier is
\* the board identifier the call had in hand, None if it had none.
check_board_support(cfg, dmi, save_ok) ==
    IF Cached(cfg)
    THEN [status |-> Classify(cfg.cached_board_name[1]),
          board_name |-> cfg.cached_board_name[1],
          identifier |-> cfg.cached_board_name,
          config |-> cfg, read |-> FALSE, saved |-> FALSE]
    ELSE IF dmi = None
    THEN [status |-> "UNSUPPORTED", board_name |-> "Unknown", identifier |-> None,
          config |-> cfg, read |-> TRUE, saved |-> FALSE]
    ELSE IF ~save_ok
    THEN [status |-> "UNSUPPORTED", board_name |-> "Unknown", identifier |-> dmi,
          config |-> [cfg EXCEPT !.cached_board_name = dmi],
          read |-> TRUE, saved |-> FALSE]
    ELSE [status |-> Classify(dmi[1]), board_name |-> dmi[1], identifier |-> dmi,
          config |-> [cfg EXCEPT !.cached_board_name = dmi],
          read |-> TRUE, saved |-> TRUE]

\* A call of check_board_support. result keeps what it returned and did, and the
\* cache as it was before the call. The saves followed are MaxBoardSaves at most.
CheckBoardSupport ==
    /\ \E save_ok \in BOOLEAN :
       \E r \in {check_board_support(config, query, save_ok)} :
          /\ config' = r.config
          /\ result' = Some([status |-> r.status, board_name |-> r.board_name,
                             identifier |-> r.identifier, read |-> r.read,
                             cached_before |-> IF Cached(config)
                                               THEN config.cached_board_name
                                               ELSE None])
          /\ IF r.saved
             THEN /\ n_saves < MaxBoardSaves
                  /\ n_saves' = n_saves + 1
                  /\ file' = r.config
                  /\ file_state' = "whole"
                  /\ \E mtime \in LaterMtimes(file_mtime) : file_mtime' = mtime
             ELSE UNCHANGED <<file, file_mtime, file_state, n_saves>>
    /\ UNCHANGED <<last_config_mtime, ma_window, temp_history, hysteresis_start_time,
                   pc, impl, pwm1_enable, pwm1, now, horizon, tick, recent, cal,
                   query>>

\* The DMI file gives another name than before (the disk is in another machine,
\* or the file has become unreadable).
ChangeBoard ==
    /\ \E dmi \in DmiReads \ {query} : query' = dmi
    /\ UNCHANGED <<file, file_mtime, file_state, config, last_config_mtime, ma_window,
                   temp_history, hysteresis_start_time, pc, impl, pwm1_enable, pwm1,
                   now, horizon, tick, recent, cal, n_saves, result>>

\* The values set_fan_mode's docstring names.
FanModes == {"max", "auto", "manual"}

\* A call of set_fan_mode, its writes succeeding; tick keeps the call.
SetFanMode ==
    /\ \E mode \in FanModes :
       \E r \in {set_fan_mode(mode, pwm1_enable, pwm1)} :
          /\ pwm1_enable' = r.enable
          /\ pwm1' = r.pwm
          /\ tick' = [NoTick EXCEPT !.step = "set_fan_mode", !.mode = mode,
                                    !.writes = r.writes]
    /\ UNCHANGED <<file, file_mtime, file_state, config, last_config_mtime, ma_window,
                   temp_history, hysteresis_start_time, pc, impl, now, horizon,
                   recent, cal, n_saves, query, result>>

\* A call of set_fan_pwm, its writes succeeding.
SetFanPwm ==
    /\ \E value \in ActuatorDuties :
       \E r \in {set_fan_pwm(value, pwm1_enable, pwm1)} :
          /\ pwm1_enable' = r.enable
          /\ pwm1' = r.pwm
          /\ tick' = [NoTick EXCEPT !.step = "set_fan_pwm", !.writes = r.writes]
    /\ UNCHANGED <<file, file_mtime, file_state, config, last_config_mtime, ma_window,
                   temp_history, hysteresis_start_time, pc, impl, now, horizon,
                   recent, cal, n_saves, query, result>>

\* A controller just constructed over a document with no cached board.
ControllerInit ==
    /\ file = Defaults
    /\ file_mtime = 1
    /\ file_state = "whole"
    /\ config = load_config(file)
    /\ query \in DmiReads
    /\ result = None
    /\ pwm1_enable \in ActuatorModes
    /\ pwm1 \in ActuatorDuties
    /\ now = 1
    /\ last_config_mtime = 0
    /\ ma_window = DEFAULT_MA_WINDOW
    /\ temp_history = <<>>
    /\ hysteresis_start_time = None
    /\ pc = "stopped"
    /\ impl = "omen_cli"
    /\ tick = NoTick
    /\ recent = <<>>
    /\ horizon = 1
    /\ cal = CalIdle
    /\ n_saves = 0

ControllerNext == CheckBoardSupport \/ ChangeBoard \/ SetFanMode \/ SetFanPwm

SpecController == ControllerInit /\ [][ControllerNext]_vars

\* C28: a call that has a board identifier in hand, cached or just read,
\* classifies it by membership, SUPPORTED before POSSIBLY_SUPPORTED; and a call
\* that finds an identifier cached uses it and does not read the DMI file.
C28_ClassifiedByMembership ==
    result # None =>
        /\ result[1].identifier # None =>
              /\ result[1].identifier[1] \in SUPPORTED_BOARDS
                    => result[1].status = "SUPPORTED"
              /\ result[1].identifier[1]
                    \in POSSIBLY_SUPPPORTED_OMEN_BOARDS \ SUPPORTED_BOARDS
                    => result[1].status = "POSSIBLY_SUPPORTED"
              /\ result[1].identifier[1]
                    \notin SUPPORTED_BOARDS \cup POSSIBLY_SUPPPORTED_OMEN_BOARDS
                    => result[1].status = "UNSUPPORTED"
        /\ result[1].cached_before # None =>
              /\ ~result[1].read
              /\ result[1].identifier = result[1].cached_before
              /\ result[1].board_name = result[1].cached_before[1]

\* C29: after set_fan_mode('max'), ('auto') and ('manual') pwm1_enable is 0, 2 and
\* 1.
C29_SetFanModeThreeValues ==
    tick.step = "set_fan_mode" =>
        /\ tick.mode = "max" => pwm1_enable = 0
        /\ tick.mode = "auto" => pwm1_enable = 2
        /\ tick.mode = "manual" => pwm1_enable = 1

---------------------------------------------------------------------------
(* The hold against a changing target                                      *)

\* C31: in a curve tick of a calibrated fan that begins with a hold in progress,
\* whatever target started the hold: with diff <= 200 and the hold at most 60
\* seconds old nothing is written and the hold start stays; with diff <= 200 and
\* the hold more than 60 seconds old the target of this tick is written; and the
\* hold start changes only if diff > 200 or the target was written.
C31_HoldIgnoresTargetChange ==
    (CurveTickCalibrated /\ tick.hold_before # None) =>
        /\ (TickDiffInBand /\ tick.time - tick.hold_before[1] <= HYSTERESIS_SECONDS)
              => (tick.writes = <<>> /\ hysteresis_start_time = tick.hold_before)
        /\ (TickDiffInBand /\ tick.time - tick.hold_before[1] > HYSTERESIS_SECONDS)
              => (TickWroteTarget /\ hysteresis_start_time = None)
        /\ hysteresis_start_time # tick.hold_before
              => (~TickDiffInBand \/ TickWroteTarget)

\* A hold started by a tick with target 0 has expired in a tick whose target is
\* 102, and 102 is written.
C31_Witness ==
    /\ CurveTickCalibrated
    /\ TickDiffInBand
    /\ tick.hold_before # None
    /\ tick.time - tick.hold_before[1] > HYSTERESIS_SECONDS
    /\ tick.hold_target = Some(0)
    /\ tick.target = Some(102)
    /\ TickWroteTarget

---------------------------------------------------------------------------
(* The daemon followed long enough for two writes inside the noise band    *)

\* The store is not saved here, so nothing is reloaded, and the two
\* implementations of serve, which differ in what a reload refreshes, run the
\* same ticks: one of them is followed.

ChatterInit ==
    /\ \E doc \in {c \in CurveConfigs : c.fan_max > 0 /\ c.ma_window = 1
                                        /\ c.curve_interpolation = "discrete"} :
          ServeStarts(doc)
    /\ impl = "omen_cli"
    /\ horizon = MaxChatterTime
    /\ cal = CalIdle
    /\ n_saves = 0
    /\ query = <<0, 1>>
    /\ result = None

SpecChatter == ChatterInit /\ [][Next]_vars

\* C32: a curve tick of a calibrated fan with diff <= 200 writes only when a hold
\* started more than 60 seconds earlier is in progress, and more than 60 seconds
\* after the last write made on such a tick.
C32_ChatterBound ==
    (CurveTickCalibrated /\ TickDiffInBand /\ tick.writes # <<>>) =>
        /\ tick.hold_before # None
        /\ tick.time - tick.hold_before[1] > HYSTERESIS_SECONDS
        /\ tick.band_write # None
              => tick.time - tick.band_write[1] > HYSTERESIS_SECONDS

\* The second write inside the band.
C32_Witness ==
    /\ CurveTickCalibrated
    /\ TickDiffInBand
    /\ tick.writes # <<>>
    /\ tick.band_write # None

---------------------------------------------------------------------------
(* The actuator at the calibration's measurement                           *)

\* C33: when the calibration reads the fan speed (line 348) after its
\* set_fan_mode('max') succeeded, pwm1_enable is 0, under every interleaving
\* with the daemon.
C33_MeasuredAtMax ==
    [][(CalMeasure /\ cal.log[1] = <<"write_enable", 0, TRUE>>)
          => pwm1_enable = 0]_vars

---------------------------------------------------------------------------
(* The GUI's timers beside a calibration it started. The service either    *)
(* runs or does not; its own steps are not followed here.                  *)

GuiRpmReadings == {0, 1400, 2350}

GuiCalibrating ==
    cal.caller = "gui" /\ cal.pc \in {"saved", "steps", "restore", "finally"}

\* Line 1124 of omen_gui.py: diff < 200.
GuiDiffWithinBand(target_pwm, max_rpm, current_rpm) ==
    Abs(target_pwm * max_rpm - current_rpm * PWM_FULL) < HYSTERESIS_RPM * PWM_FULL

\* apply_curve_step, lines 1100-1138: nothing without a curve or a target; else the
\* hold over diff, and the write.
GuiCurveStep(cfg, target_pwm, current_rpm, hold, t, enable, pwm) ==
    IF cfg.curve = <<>> \/ target_pwm = None
    THEN [act |-> NoWrite(enable, pwm), hold |-> hold, target |-> None,
          should_apply |-> FALSE]
    ELSE IF cfg.fan_max > 0
    THEN IF GuiDiffWithinBand(target_pwm[1], cfg.fan_max, current_rpm)
         THEN LET h == IF hold = None THEN Some(t) ELSE hold
              IN  IF t - h[1] > HYSTERESIS_SECONDS
                  THEN [act |-> set_fan_pwm(target_pwm[1], enable, pwm),
                        hold |-> None, target |-> target_pwm, should_apply |-> TRUE]
                  ELSE [act |-> NoWrite(enable, pwm), hold |-> h,
                        target |-> target_pwm, should_apply |-> FALSE]
         ELSE [act |-> set_fan_pwm(target_pwm[1], enable, pwm), hold |-> None,
               target |-> target_pwm, should_apply |-> TRUE]
    ELSE [act |-> set_fan_pwm(target_pwm[1], enable, pwm), hold |-> hold,
          target |-> target_pwm, should_apply |-> TRUE]

\* The curve_timer fires (every 2000 ms, line 1086): apply_curve_step.
ApplyCurveStep ==
    /\ cal.caller = "gui"
    /\ cal.curve_timer
    /\ now + CURVE_TIMER_SECONDS <= horizon
    /\ \E sample \in TempReadings, current_rpm \in GuiRpmReadings :
       \E history \in {PushSample(cal.temp_history, ma_window, sample)} :
       \E avg_temp \in {Average(history)} :
       \E target_pwm \in {calculate_target_pwm(cal.config, avg_temp)} :
       \E r \in {GuiCurveStep(cal.config, target_pwm, current_rpm,
                              cal.hysteresis_start_time, now, pwm1_enable, pwm1)} :
          /\ cal' = [cal EXCEPT !.temp_history = history,
                                !.hysteresis_start_time = r.hold]
          /\ pwm1_enable' = r.act.enable
          /\ pwm1' = r.act.pwm
          /\ tick' = [NoTick EXCEPT !.step = "apply_curve_step",
                                    !.mode = cal.config.mode,
                                    !.stored_mode = file.mode, !.time = now,
                                    !.sample = sample, !.window = ma_window,
                                    !.avg = avg_temp, !.target = r.target,
                                    !.current_rpm = current_rpm,
                                    !.max_rpm = cal.config.fan_max,
                                    !.hold_before = cal.hysteresis_start_time,
                                    !.should_apply = r.should_apply,
                                    !.writes = r.act.writes]
          /\ now' = now + CURVE_TIMER_SECONDS
    /\ UNCHANGED <<file, file_mtime, file_state, config, last_config_mtime, ma_window,
                   temp_history, hysteresis_start_time, pc, impl, horizon, recent,
                   n_saves, query, result>>

\* The watchdog_timer fires: run_watchdog, lines 1346-1348, is apply_fan_mode.
RunWatchdog ==
    /\ cal.caller = "gui"
    /\ cal.watchdog
    /\ n_saves < MaxGuiSaves
    /\ \E r \in {ApplyFanMode(cal.config, cal.combo, ServiceRunning, pwm1_enable, pwm1)},
          mtime \in LaterMtimes(file_mtime) :
          /\ cal' = [cal EXCEPT !.config = r.config,
                                !.curve_timer = CurveTimerAfterApply(cal.combo,
                                                                     ServiceRunning,
                                                                     cal.curve_timer)]
          /\ file' = r.config
          /\ file_mtime' = mtime
          /\ file_state' = "whole"
          /\ pwm1_enable' = r.act.enable
          /\ pwm1' = r.act.pwm
          /\ tick' = [NoTick EXCEPT !.step = "run_watchdog", !.mode = cal.combo,
                                    !.stored_mode = file.mode, !.time = now,
                                    !.writes = r.act.writes]
    /\ n_saves' = n_saves + 1
    /\ UNCHANGED <<config, last_config_mtime, ma_window, temp_history,
                   hysteresis_start_time, pc, impl, now, horizon, recent, query,
                   result>>

\* check_service_status, lines 1286-1307, with start_curve_loop, 1075-1088: the
\* curve_timer after the svc_timer fired.
CurveTimerAfterStatus(installed, running, combo, timer) ==
    IF ~installed THEN timer
    ELSE IF running THEN FALSE
    ELSE IF combo = "curve" THEN TRUE
    ELSE timer

\* The svc_timer fires (every 15 s, line 270). A service that runs is installed.
CheckServiceStatus ==
    /\ cal.caller = "gui"
    /\ \E installed \in (IF ServiceRunning THEN {TRUE} ELSE BOOLEAN) :
          cal' = [cal EXCEPT !.curve_timer =
                                CurveTimerAfterStatus(installed, ServiceRunning,
                                                      cal.combo, cal.curve_timer)]
    /\ tick' = [NoTick EXCEPT !.step = "check_service_status", !.mode = cal.combo,
                              !.stored_mode = file.mode, !.time = now]
    /\ UNCHANGED <<file, file_mtime, file_state, pwm1_enable, pwm1, config,
                   last_config_mtime, ma_window, temp_history, hysteresis_start_time,
                   pc, impl, now, horizon, recent, n_saves, query, result>>

\* The main window after its construction (lines 197-202, 268-270), with the mode
\* the user chose and applied and the watchdog box ticked or not.
GuiInit ==
    /\ \E m \in Modes \ {"calibration"}, f \in CalibratedMax :
          /\ file = [Defaults EXCEPT !.mode = m, !.fan_max = f, !.curve = ExampleCurve]
          /\ pc \in {"stopped", "top"}
          /\ \E w \in BOOLEAN :
                cal = [CalIdle EXCEPT !.caller = "gui", !.combo = m, !.watchdog = w,
                                      !.curve_timer = (m = "curve" /\ pc = "stopped")]
    /\ pwm1_enable = 2
    /\ pwm1 = 0
    /\ config = load_config(file)
    /\ file_mtime = 1
    /\ file_state = "whole"
    /\ last_config_mtime = 1
    /\ now = 1
    /\ horizon = MaxGuiTime
    /\ ma_window = load_config(file).ma_window
    /\ temp_history = <<>>
    /\ hysteresis_start_time = None
    /\ impl = "omen_cli"
    /\ tick = NoTick
    /\ recent = <<>>
    /\ n_saves = 0
    /\ query = <<0, 1>>
    /\ result = None

GuiNext ==
    \/ GuiBegin
    \/ CalSnapshot
    \/ CalStep
    \/ CalMeasure
    \/ CalRestore
    \/ GuiFinish
    \/ RunWatchdog
    \/ CheckServiceStatus
    \/ ApplyCurveStep

SpecGui == GuiInit /\ [][GuiNext]_vars

\* The step is one of the GUI's timer callbacks.
GuiTimerFires == RunWatchdog \/ CheckServiceStatus \/ ApplyCurveStep

\* C34: while a calibration started from the GUI runs, a timer callback writes
\* neither pwm1_enable nor pwm1, and leaves a stored mode "calibration" as it is.
C34_TimersKeepOff ==
    [][(GuiCalibrating /\ GuiTimerFires)
          => /\ tick'.writes = <<>>
             /\ file.mode = "calibration" => file'.mode = "calibration"]_vars

\* C39: apply_curve_step decides as serve's curve tick does: for the target,
\* fan speed, fan_max, hold and time of a GUI curve step, serve's governor writes
\* or suppresses as the GUI did and leaves the hold the GUI left, diff = 200
\* included.
C39_SameGovernor ==
    (tick.step = "apply_curve_step" /\ tick.target # None) =>
        \E s \in {CurveStep([Defaults EXCEPT !.fan_max = tick.max_rpm], tick.target,
                            tick.current_rpm, tick.hold_before, tick.time, 0, 0)} :
           /\ s.should_apply = tick.should_apply
           /\ s.hold = cal.hysteresis_start_time

---------------------------------------------------------------------------
(* The calibrating process over any stored mode, "calibration" left by a   *)
(* killed run included, beside another process that saves the store.       *)

CalibStoreInit ==
    /\ \E m \in Modes, f \in CalibratedMax :
          file = [Defaults EXCEPT !.mode = m, !.fan_max = f]
    /\ pwm1_enable = 2
    /\ pwm1 = 0
    /\ \/ cal = CalIdle
       \/ \E m \in Modes \ {"calibration"} :
             cal = [CalIdle EXCEPT !.caller = "gui", !.combo = m]
    /\ config = Defaults
    /\ pc = "stopped"
    /\ file_mtime = 1
    /\ file_state = "whole"
    /\ last_config_mtime = 0
    /\ now = 1
    /\ horizon = 1
    /\ ma_window = DEFAULT_MA_WINDOW
    /\ temp_history = <<>>
    /\ hysteresis_start_time = None
    /\ impl = "omen_cli"
    /\ tick = NoTick
    /\ recent = <<>>
    /\ n_saves = 0
    /\ query = <<0, 1>>
    /\ result = None

CalibStoreNext == CalibRunNext \/ ExternalSave

SpecCalibStore == CalibStoreInit /\ [][CalibStoreNext]_vars

\* C35: the save of the measurement (lines 349-350) changes fan_max only: every
\* other field of the stored document is after the save what it was just before
\* it, whatever another process saved since the calibrating process loaded its
\* configuration.
C35_OnlyFanMaxChanged ==
    [][CalMeasure => [file' EXCEPT !.fan_max = file.fan_max] = file]_vars

\* C36: when the calibrate command has put the mode back and returns (lines
\* 66-68), the stored mode is not "calibration", whatever the store held before
\* the command.
C36_ModeLeftNotCalibration ==
    [][CalFinish => file'.mode # "calibration"]_vars

---------------------------------------------------------------------------
(* The daemon in every mode and on its error paths, beside another process *)
(* that saves the store.                                                   *)

\* The daemon starts in curve mode or with a mode it does not know; the other
\* modes come with what the other process saves, once.
ReadOnlyInit ==
    /\ \E doc \in {c \in FaultConfigs : c.mode \in {"curve", UnknownMode}
                                        /\ c.manual_pwm = 128} :
          ServeStarts(doc)
    /\ horizon = MaxReadOnlyTime
    /\ cal = CalIdle
    /\ n_saves = MaxSaves - 1
    /\ query = <<0, 1>>
    /\ result = None

ReadOnlyNext == FaultNext \/ ExternalSave

SpecReadOnly == ReadOnlyInit /\ [][ReadOnlyNext]_vars

\* C37: no step of serve, in any mode or on an error path, changes the stored
\* document, its state or its modification time, and the in-memory configuration
\* changes only in the reload step, to the whole of what load_config gives.
C37_DaemonReadsOnly ==
    [][FaultNext =>
          /\ file' = file
          /\ file_mtime' = file_mtime
          /\ file_state' = file_state
          /\ config' # config => (ServeReload /\ config' = load_config(file))]_vars

\* The daemon reloaded what another process saved and then went through a tick
\* that raised.
C37_Witness ==
    /\ n_saves = MaxSaves
    /\ file_mtime > 1
    /\ last_config_mtime = file_mtime
    /\ config = load_config(file)
    /\ tick.step = "error"

---------------------------------------------------------------------------
(* The values the daemon writes, over the configurations the schema allows *)

\* Curves whose duties reach both ends of 0..100.
RangeCurves ==
    {<<<<30, 0>>, <<60, 100>>>>, <<<<40, 100>>, <<80, 0>>>>, <<<<50, 100>>>>,
     ExampleCurve}

\* Documents within the schema: duties in 0..100, manual_pwm in 0..255.
SchemaConfigs ==
    {[Defaults EXCEPT !.mode = m, !.curve = c, !.curve_interpolation = i,
                      !.fan_max = 6000, !.ma_window = 1, !.manual_pwm = d] :
        m \in {"curve", "manual"}, c \in RangeCurves, i \in {"smooth", "discrete"},
        d \in {0, 255}}

\* The other process changes the mode, once.
RangeInit ==
    /\ \E doc \in SchemaConfigs : ServeStarts(doc)
    /\ horizon = MaxRangeTime
    /\ cal = CalIdle
    /\ n_saves = MaxSaves - 1
    /\ query = <<0, 1>>
    /\ result = None

SpecRange == RangeInit /\ [][ReloadNext]_vars

\* C38: with a configuration within the schema, every value a tick writes to pwm1
\* is an integer in 0..255 and every value it writes to pwm1_enable is 0, 1 or 2.
C38_WritesInRange ==
    \A k \in 1..Len(tick.writes) :
       /\ tick.writes[k][1] = "pwm1" => tick.writes[k][2] \in 0..PWM_FULL
       /\ tick.writes[k][1] = "pwm1_enable" => tick.writes[k][2] \in {0, 1, 2}

\* A curve tick wrote the full duty.
C38_Witness ==
    /\ tick.step = "body"
    /\ tick.mode = "curve"
    /\ \E k \in 1..Len(tick.writes) : tick.writes[k] = <<"pwm1", PWM_FULL>>

====
